---- MODULE Spec2Model ----
(***************************************************************************)
(* Model of the audio analysis core of laborator_filtrare:                 *)
(*   - generateSpectrogram / calculateSpectrum   (utils/spectogram.ts)     *)
(*   - extractRawPCMFromWAV                      (utils/wav_parser.js)     *)
(*   - encodeWav and the float-to-int16 step     (app/(tabs)/index.tsx)    *)
(*   - applyIIRFilter                            (utils/iirFilter)         *)
(*                                                                         *)
(* JavaScript numbers are modelled as exact rationals [n, d] with d >= 0;  *)
(* d = 0 encodes the IEEE specials: 1/0 = +Infinity, -1/0 = -Infinity and  *)
(* 0/0 = NaN.  Float32Array storage is modelled by Fround (round to 24     *)
(* significant bits, ties to even).                                        *)
(***************************************************************************)
EXTENDS Integers, Sequences, FiniteSets, TLC

VARIABLES
    gsInput,     \* audioInput of generateSpectrogram: [kind, data]
    gsOptions,   \* options of generateSpectrogram
    gsPc,        \* position of the invocation
    gsSamples,   \* audioSamples (after conversion and zero padding)
    gsHop,       \* hopSize
    gsTotal,     \* totalTimeFrames (a JS number)
    gsI,         \* loop index i
    gsRows,      \* fullSpectrogram
    gsTimes,     \* fullTimes
    gsFreqs,     \* frequencies
    gsSkipped,   \* number of loop iterations that took the `continue`
    gsError,     \* message of the thrown error, "" when none
    gsReturnedOptions  \* the options object of the returned result

VARIABLES
    wavBuf,      \* bytes of the decoded base64 input of extractRawPCMFromWAV
    wavPc,       \* "called", "returned" or "threw"
    wavOut       \* the returned PCMDataResult, or the thrown error

VARIABLES
    fnArgs,      \* arguments of a call of one of the other functions
    fnPc,        \* "idle", "called", "returned" or "threw"
    fnOut        \* its result

VARIABLES
    screen       \* React state of the spectrogram screen

wavVars == <<wavBuf, wavPc, wavOut>>

scrVars == <<screen>>

\* the screen is not mounted
ScrUnmounted == [mounted |-> FALSE]

fnVars == <<fnArgs, fnPc, fnOut>>

gsVars == <<gsInput, gsOptions, gsPc, gsSamples, gsHop, gsTotal, gsI,
            gsRows, gsTimes, gsFreqs, gsSkipped, gsError, gsReturnedOptions>>

-----------------------------------------------------------------------------
(* JavaScript numbers as rationals with IEEE specials                       *)

Abs(x) == IF x < 0 THEN -x ELSE x

Sgn(x) == IF x < 0 THEN -1 ELSE IF x > 0 THEN 1 ELSE 0

RECURSIVE GCD(_, _)
GCD(a, b) == IF b = 0 THEN a ELSE GCD(b, a % b)

\* canonical form: d >= 0, lowest terms, specials as 1/0, -1/0, 0/0
Q(n, d) ==
    IF d = 0 THEN [n |-> Sgn(n), d |-> 0]
    ELSE LET g == GCD(Abs(n), Abs(d))
             s == IF d < 0 THEN -1 ELSE 1
         IN  [n |-> s * (n \div g), d |-> s * (d \div g)]

QInt(i) == [n |-> i, d |-> 1]
QNaN == [n |-> 0, d |-> 0]
QPosInf == [n |-> 1, d |-> 0]
QNegInf == [n |-> -1, d |-> 0]

IsNaN(x) == x.d = 0 /\ x.n = 0
IsFinite(x) == x.d # 0

\* negative zero, as Math.floor(-2 * 0) gives it; only a divisor carries it
QNegZero == [n |-> 0, d |-> -1]
IsNegZero(x) == x.n = 0 /\ x.d < 0

\* x / y as IEEE division; the sign of a zero divisor counts, the sign of a
\* zero dividend or quotient is not kept
QDiv(x, y) ==
    IF IsNaN(x) \/ IsNaN(y) THEN QNaN
    ELSE IF x.d = 0 /\ y.d = 0 THEN QNaN
    ELSE IF x.d = 0
         THEN Q(x.n * (IF y.n < 0 \/ IsNegZero(y) THEN -1 ELSE 1), 0)
    ELSE IF y.d = 0 THEN QInt(0)
    ELSE IF IsNegZero(y) THEN Q(-x.n, 0)
    ELSE IF y.n = 0 THEN Q(x.n, 0)
    ELSE Q(x.n * y.d, x.d * y.n)

QMul(x, y) ==
    IF IsNaN(x) \/ IsNaN(y) THEN QNaN
    ELSE IF x.d = 0 \/ y.d = 0
         THEN (IF x.n = 0 \/ y.n = 0 THEN QNaN ELSE Q(Sgn(x.n) * Sgn(y.n), 0))
    ELSE Q(x.n * y.n, x.d * y.d)

QAdd(x, y) ==
    IF IsNaN(x) \/ IsNaN(y) THEN QNaN
    ELSE IF x.d = 0 /\ y.d = 0 THEN (IF x.n = y.n THEN x ELSE QNaN)
    ELSE IF x.d = 0 THEN x
    ELSE IF y.d = 0 THEN y
    ELSE Q(x.n * y.d + y.n * x.d, x.d * y.d)

\* JS relational operators: every comparison with NaN is false
QLt(x, y) ==
    IF IsNaN(x) \/ IsNaN(y) THEN FALSE
    ELSE IF x.d = 0 /\ y.d = 0 THEN x.n < y.n
    ELSE IF x.d = 0 THEN x.n < 0
    ELSE IF y.d = 0 THEN y.n > 0
    ELSE x.n * y.d < y.n * x.d

QLe(x, y) ==
    IF IsNaN(x) \/ IsNaN(y) THEN FALSE
    ELSE x = y \/ QLt(x, y)

\* Math.floor
QFloor(x) == IF x.d = 0 THEN x ELSE QInt(x.n \div x.d)

\* Math.max(a, b): NaN if either argument is NaN
QMax(x, y) ==
    IF IsNaN(x) \/ IsNaN(y) THEN QNaN
    ELSE IF QLt(x, y) THEN y ELSE x

\* Math.min(a, b): NaN if either argument is NaN
QMin(x, y) ==
    IF IsNaN(x) \/ IsNaN(y) THEN QNaN
    ELSE IF QLt(y, x) THEN y ELSE x

-----------------------------------------------------------------------------
(* Bounds of the model                                                      *)

MaxLen == 6        \* longest audioInput
MaxIter == 3       \* iterations of a never-ending frame loop that are told apart

(* Option values the invocations are drawn from.  overlap is a multiple of *)
(* 1/4, so fftSize * (1 - overlap) is computed without rounding.           *)
FftSizes == {-2, 0, 1, 2, 3, 4}
Overlaps == {Q(0, 4), Q(2, 4), Q(3, 4), Q(4, 4), Q(6, 4)}
SamplingRates == {-4, 0, 4, 8}
WindowTypes == {"hanning", "rectangular"}

-----------------------------------------------------------------------------
(* utils/spectogram.ts : window, spectrum, dB conversion                    *)

\* cos(2*pi*i/m) and sin(2*pi*i/m) where they are rational (m in 1,2,3,4,6);
\* m = 0 is the 0/0 of a window of length 1
CosTurn(i, m) ==
    IF m = 0 THEN QNaN
    ELSE LET r == i % m IN
         IF r = 0 THEN QInt(1)
         ELSE IF 2 * r = m THEN QInt(-1)
         ELSE IF 4 * r = m \/ 4 * r = 3 * m THEN QInt(0)
         ELSE IF 3 * r = m \/ 3 * r = 2 * m THEN Q(-1, 2)
         ELSE Q(1, 2)

SinTurn(i, m) ==
    LET r == i % m IN
    IF r = 0 \/ 2 * r = m THEN QInt(0)
    ELSE IF 4 * r = m THEN QInt(1)
    ELSE QInt(-1)

KnownWindowTypes == {"hanning", "hamming", "blackman", "bartlett", "rectangular"}

\* a plausible slip: an unknown type falls back to the Hanning window
WindowCaseHanningDefault(t) == IF t \in KnownWindowTypes THEN t ELSE "hanning"

\* the branch of the switch: `default` shares the 'rectangular' branch
WindowCase(t) == IF t \in KnownWindowTypes THEN t ELSE "rectangular"

\* createWindow(length, type); throws RangeError for a negative length
createWindow(length, windowType) ==
    [i \in 1..length |->
        LET c == CosTurn(i - 1, length - 1)
            c2 == CosTurn(2 * (i - 1), length - 1)
            type == WindowCase(windowType)
        IN  CASE type = "hanning" ->
                   QMul(Q(1, 2), QAdd(QInt(1), QMul(QInt(-1), c)))
              [] type = "hamming" ->
                   QAdd(Q(54, 100), QMul(Q(-46, 100), c))
              [] type = "blackman" ->
                   QAdd(QAdd(Q(42, 100), QMul(Q(-1, 2), c)), QMul(Q(8, 100), c2))
              [] type = "bartlett" ->
                   QMul(QDiv(QInt(2), QInt(length - 1)),
                        QAdd(Q(length - 1, 2),
                             Q(-Abs(2 * (i - 1) - (length - 1)), 2)))
              [] OTHER -> QInt(1)]

\* linearToDb on a squared magnitude m2 = mag^2.  A dB value is kept as
\*   [k |-> "floor"]          20*log10(1e-10) = -200 dB
\*   [k |-> "log", sq |-> m2] 20*log10(sqrt(m2)), for sqrt(m2) > 1e-10
\*   [k |-> "nan"]            Math.max(NaN, 1e-10) = NaN
linearToDb(m2) ==
    IF IsNaN(m2) THEN [k |-> "nan"]
    ELSE IF m2.d = 0 THEN [k |-> "log", sq |-> m2]
    ELSE IF m2.n = 0
            \/ ((((m2.d \div m2.n) \div 100000) \div 100000) \div 100000) \div 100000 >= 1
         THEN [k |-> "floor"]
    ELSE [k |-> "log", sq |-> m2]

\* Array.prototype.slice / TypedArray.prototype.slice(begin, end)
Slice(s, begin, end) ==
    LET len == Len(s)
        rel(x) == IF x < 0 THEN (IF len + x < 0 THEN 0 ELSE len + x)
                  ELSE (IF x > len THEN len ELSE x)
        b == rel(begin)
        e == rel(end)
    IN  IF e <= b THEN <<>> ELSE [j \in 1..(e - b) |-> s[b + j]]

RECURSIVE QSum(_, _)
QSum(f, n) == IF n = 0 THEN QInt(0) ELSE QAdd(QSum(f, n - 1), f[n])

\* (size & (size - 1)) === 0 for a positive integer size
RECURSIVE IsPow2(_)
IsPow2(n) == n >= 1 /\ (n = 1 \/ (n % 2 = 0 /\ IsPow2(n \div 2)))

\* a plausible slip: the Nyquist bin is kept as well
Np2WithNyquist(fftSize) == fftSize \div 2 + 1

\* Np2 = Math.floor(fftSize / 2), the number of bins kept
Np2Of(fftSize) == fftSize \div 2

\* calculateSpectrum(audioSamples, {samplingRate, fftSize, windowType}).
\* spectrum[k] carries the squared magnitude re^2 + im^2 of bin k.
calculateSpectrum(audioSamples, samplingRate, fftSize, windowType) ==
    IF fftSize < 0
    THEN [ok |-> FALSE, error |-> "RangeError: Invalid typed array length",
          spectrum |-> <<>>, frequencies |-> <<>>]
    ELSE IF fftSize <= 1 \/ ~IsPow2(fftSize)
    THEN [ok |-> FALSE, error |-> "FFT size must be a power of two and bigger than 1",
          spectrum |-> <<>>, frequencies |-> <<>>]
    ELSE
    LET frame == IF Len(audioSamples) < fftSize
                 THEN [j \in 1..fftSize |->
                          IF j <= Len(audioSamples) THEN audioSamples[j] ELSE QInt(0)]
                 ELSE Slice(audioSamples, 0, fftSize)
        window == createWindow(fftSize, windowType)
        windowedFrame == [j \in 1..fftSize |-> QMul(frame[j], window[j])]
        Np2 == Np2Of(fftSize)
        delta_f == QDiv(QInt(samplingRate), QInt(fftSize))
        re(k) == QSum([j \in 1..fftSize |->
                          QMul(windowedFrame[j], CosTurn(k * (j - 1), fftSize))], fftSize)
        im(k) == QSum([j \in 1..fftSize |->
                          QMul(QMul(QInt(-1), windowedFrame[j]),
                               SinTurn(k * (j - 1), fftSize))], fftSize)
    IN  [ok |-> TRUE, error |-> "",
         spectrum |-> [k \in 1..Np2 |->
                          QAdd(QMul(re(k - 1), re(k - 1)), QMul(im(k - 1), im(k - 1)))],
         frequencies |-> [k \in 1..Np2 |-> QMul(QInt(k - 1), delta_f)]]

\* dbToLinear(Math.max(-160, Math.min(0, db))) for a metering value; an
\* invalid value (undefined, null, NaN, -Infinity) is silence.  Metering
\* values strictly between -160 dB and 0 dB are outside the model.
MeterToLinear(db) ==
    IF IsNaN(db) \/ db = QNegInf THEN QInt(0)
    ELSE IF QLe(QMax(QInt(-160), QMin(QInt(0), db)), QInt(-160)) THEN QInt(0)
    ELSE QInt(1)

-----------------------------------------------------------------------------
(* generateSpectrogram: inputs                                              *)

\* contents of a Float32Array of raw samples
F32Patterns == {"zeros", "ones", "alt", "ramp", "nan"}

F32Data(pat, len) ==
    [j \in 1..len |->
        CASE pat = "zeros" -> QInt(0)
          [] pat = "ones"  -> QInt(1)
          [] pat = "alt"   -> IF j % 2 = 1 THEN QInt(1) ELSE QInt(-1)
          [] pat = "ramp"  -> QInt(j)
          [] OTHER         -> IF j = 1 THEN QNaN ELSE QInt(1)]

\* contents of a number[] of dB metering values
MeterPatterns == {"db0", "silence", "invalid"}

MeterData(pat, len) ==
    [j \in 1..len |->
        CASE pat = "db0"     -> IF j % 2 = 1 THEN QInt(0) ELSE QInt(5)
          [] pat = "silence" -> IF j % 2 = 1 THEN QInt(-160) ELSE QInt(-200)
          [] OTHER           -> IF j = 1 THEN QNaN ELSE IF j = 2 THEN QNegInf ELSE QInt(0)]

\* audioInput: missing (null / undefined), number[] or Float32Array
AudioInputs ==
    {[kind |-> "missing", data |-> <<>>]}
    \cup {[kind |-> "array", data |-> MeterData(pat, len)] :
             pat \in MeterPatterns, len \in 0..MaxLen}
    \cup {[kind |-> "f32", data |-> F32Data(pat, len)] :
             pat \in F32Patterns, len \in 0..MaxLen}

SpectrogramOptionsSet ==
    [samplingRate : SamplingRates, fftSize : FftSizes, overlap : Overlaps,
     windowType : WindowTypes]
    \cup [samplingRate : SamplingRates, fftSize : FftSizes, overlap : Overlaps,
          windowType : WindowTypes, duration : {QInt(3)}]

-----------------------------------------------------------------------------
(* generateSpectrogram: the invocation, one action per stretch of code      *)

GsInit ==
    /\ gsInput \in AudioInputs
    /\ gsOptions \in SpectrogramOptionsSet
    /\ gsPc = "called"
    /\ gsSamples = <<>>
    /\ gsHop = QInt(0)
    /\ gsTotal = QInt(0)
    /\ gsI = 0
    /\ gsRows = <<>>
    /\ gsTimes = <<>>
    /\ gsFreqs = <<>>
    /\ gsSkipped = 0
    /\ gsError = ""
    /\ gsReturnedOptions = <<>>
    /\ screen = ScrUnmounted
    /\ wavBuf = <<>>
    /\ wavPc = "idle"
    /\ wavOut = [ok |-> FALSE, error |-> ""]
    /\ fnArgs = <<>>
    /\ fnPc = "idle"
    /\ fnOut = <<>>

\* a plausible slip: only plain arrays are checked for emptiness
IsEmptyInputArraysOnly(audioInput) ==
    \/ audioInput.kind = "missing"
    \/ (audioInput.kind = "array" /\ Len(audioInput.data) = 0)

\* the check for empty or invalid input
IsEmptyInput(audioInput) ==
    \/ audioInput.kind = "missing"
    \/ (audioInput.kind = "array" /\ Len(audioInput.data) = 0)
    \/ (audioInput.kind = "f32" /\ Len(audioInput.data) = 0)

\* raw samples are used directly, metering data is converted to linear
ToAudioSamples(audioInput) ==
    IF audioInput.kind = "f32" THEN audioInput.data
    ELSE [j \in 1..Len(audioInput.data) |-> MeterToLinear(audioInput.data[j])]

\* zero padding up to fftSize
PadSamples(samples, fftSize) ==
    IF Len(samples) < fftSize
    THEN [j \in 1..fftSize |-> IF j <= Len(samples) THEN samples[j] ELSE QInt(0)]
    ELSE samples

\* hopSize = Math.floor(fftSize * (1 - overlap)), a number: the product of a
\* negative factor and a zero one is -0, and Math.floor keeps it
HopSize(fftSize, overlap) ==
    LET factor == QAdd(QInt(1), QMul(QInt(-1), overlap))
        product == QMul(QInt(fftSize), factor)
    IN  IF IsFinite(product) /\ product.n = 0
              /\ ((fftSize < 0) # (IsFinite(factor) /\ factor.n < 0))
        THEN QNegZero
        ELSE QFloor(product)

\* a plausible slip: the frame count rounded up instead of down
TotalTimeFramesRoundedUp(N, fftSize, hopSize) ==
    QMax(QInt(1), QAdd(QFloor(QDiv(QInt(N - fftSize), hopSize)), QInt(2)))

\* totalTimeFrames = Math.max(1, Math.floor((N - fftSize) / hopSize) + 1)
TotalTimeFrames(N, fftSize, hopSize) ==
    QMax(QInt(1), QAdd(QFloor(QDiv(QInt(N - fftSize), hopSize)), QInt(1)))

\* a plausible slip: a supplied duration is trusted
ActualDurationFromOptions(N, samplingRate) ==
    IF gsOptions.duration > 0 THEN QInt(gsOptions.duration)
    ELSE QDiv(QInt(N), QInt(samplingRate))

\* actualDuration = audioSamples.length / samplingRate
ActualDuration(N, samplingRate) == QDiv(QInt(N), QInt(samplingRate))

\* a plausible slip: the supplied options are returned as they came
ReturnedOptionsAsSupplied(options, actualDuration) ==
    [f \in DOMAIN options \cup {"duration"} |->
        IF f \in DOMAIN options THEN options[f] ELSE actualDuration]

\* options: { ...options, duration: actualDuration }
ReturnedOptions(options, actualDuration) ==
    [f \in DOMAIN options \cup {"duration"} |->
        IF f = "duration" THEN actualDuration ELSE options[f]]

\* time of frame i
FrameTime(i, totalTimeFrames, actualDuration) ==
    IF QLt(QInt(1), totalTimeFrames)
    THEN QMul(QDiv(QInt(i), QAdd(totalTimeFrames, QInt(-1))), actualDuration)
    ELSE QDiv(actualDuration, QInt(2))

\* a plausible slip: fullSpectrogram kept outside the function
FreshSpectrogramShared == gsRows

\* const fullSpectrogram: number[][] = [] : a new array in every invocation
FreshSpectrogram == <<>>

\* validation, preparation and set-up, up to the frame loop; the result
\* arrays and the loop counter are created after the first spectrum, so an
\* invocation that throws before that creates none
GsSetup ==
    /\ gsPc = "called"
    /\ IF IsEmptyInput(gsInput)
       THEN /\ gsPc' = "failed"
            /\ gsError' = "Invalid empty input data"
            /\ UNCHANGED <<gsSamples, gsHop, gsTotal, gsFreqs>>
            /\ UNCHANGED <<gsI, gsRows, gsTimes, gsSkipped>>
       ELSE LET fftSize == gsOptions.fftSize
                samples == PadSamples(ToAudioSamples(gsInput), fftSize)
                hopSize == HopSize(fftSize, gsOptions.overlap)
                first == calculateSpectrum(Slice(samples, 0, fftSize),
                                           gsOptions.samplingRate, fftSize,
                                           gsOptions.windowType)
            IN  /\ gsSamples' = samples
                /\ gsHop' = hopSize
                /\ gsTotal' = TotalTimeFrames(Len(samples), fftSize, hopSize)
                /\ IF first.ok
                   THEN /\ gsPc' = "loop"
                        /\ gsFreqs' = first.frequencies
                        /\ gsError' = ""
                        /\ gsRows' = FreshSpectrogram
                        /\ gsTimes' = <<>>
                        /\ gsI' = 0
                        /\ gsSkipped' = 0
                   ELSE /\ gsPc' = "failed"
                        /\ gsFreqs' = <<>>
                        /\ gsError' = first.error
                        /\ UNCHANGED <<gsI, gsRows, gsTimes, gsSkipped>>
    /\ UNCHANGED <<gsInput, gsOptions, gsReturnedOptions>>
    /\ UNCHANGED <<wavVars, fnVars, scrVars>>

\* one iteration of the frame loop
GsFrame ==
    /\ gsPc = "loop"
    /\ QLt(QInt(gsI), gsTotal)
    /\ IsFinite(gsTotal) \/ gsI < MaxIter
    /\ LET fftSize == gsOptions.fftSize
           frameStart == gsI * gsHop.n
       IN  IF frameStart + fftSize > Len(gsSamples)
           THEN /\ gsSkipped' = gsSkipped + 1
                /\ UNCHANGED <<gsRows, gsTimes>>
           ELSE LET frame == Slice(gsSamples, frameStart, frameStart + fftSize)
                    res == calculateSpectrum(frame, gsOptions.samplingRate,
                                             fftSize, gsOptions.windowType)
                    magnitudesDb == [k \in 1..Len(res.spectrum) |->
                                        linearToDb(res.spectrum[k])]
                    time == FrameTime(gsI, gsTotal,
                                      ActualDuration(Len(gsSamples),
                                                     gsOptions.samplingRate))
                IN  /\ gsRows' = Append(gsRows, magnitudesDb)
                    /\ gsTimes' = Append(gsTimes, time)
                    /\ UNCHANGED gsSkipped
    /\ gsI' = gsI + 1
    /\ UNCHANGED <<gsInput, gsOptions, gsPc, gsSamples, gsHop, gsTotal, gsFreqs,
                   gsError, gsReturnedOptions>>
    /\ UNCHANGED <<wavVars, fnVars, scrVars>>

\* totalTimeFrames = Infinity: i < totalTimeFrames never becomes false and the
\* loop goes on pushing rows; past MaxIter only the parity of i is kept
GsFrameUnbounded ==
    /\ gsPc \in {"loop", "looping"}
    /\ gsTotal = QPosInf
    /\ gsI >= MaxIter
    /\ gsPc' = "looping"
    /\ gsI' = IF gsI = MaxIter THEN MaxIter + 1 ELSE MaxIter
    /\ UNCHANGED <<gsInput, gsOptions, gsSamples, gsHop, gsTotal, gsRows,
                   gsTimes, gsFreqs, gsSkipped, gsError,
                   gsReturnedOptions>>
    /\ UNCHANGED <<wavVars, fnVars, scrVars>>

\* the loop condition is false: the result is returned
GsReturn ==
    /\ gsPc = "loop"
    /\ ~QLt(QInt(gsI), gsTotal)
    /\ gsPc' = "returned"
    /\ gsReturnedOptions' =
          ReturnedOptions(gsOptions,
                          ActualDuration(Len(gsSamples), gsOptions.samplingRate))
    /\ UNCHANGED <<gsInput, gsOptions, gsSamples, gsHop, gsTotal, gsI, gsRows,
                   gsTimes, gsFreqs, gsSkipped, gsError>>
    /\ UNCHANGED <<wavVars, fnVars, scrVars>>

GsNext == GsSetup \/ GsFrame \/ GsFrameUnbounded \/ GsReturn

vars == <<gsVars, wavVars, fnVars, scrVars>>

SpecGs == GsInit /\ [][GsNext]_vars

\* invocations on raw samples with every fftSize and overlap
GsFairInit ==
    /\ gsInput \in {[kind |-> "f32", data |-> F32Data(pat, len)] :
                        pat \in {"ramp", "nan"}, len \in 0..MaxLen}
    /\ gsOptions \in [samplingRate : {4}, fftSize : FftSizes,
                      overlap : Overlaps, windowType : {"rectangular"}]
    /\ gsPc = "called"
    /\ gsSamples = <<>>
    /\ gsHop = QInt(0)
    /\ gsTotal = QInt(0)
    /\ gsI = 0
    /\ gsRows = <<>>
    /\ gsTimes = <<>>
    /\ gsFreqs = <<>>
    /\ gsSkipped = 0
    /\ gsError = ""
    /\ gsReturnedOptions = <<>>
    /\ screen = ScrUnmounted
    /\ wavBuf = <<>>
    /\ wavPc = "idle"
    /\ wavOut = [ok |-> FALSE, error |-> ""]
    /\ fnArgs = <<>>
    /\ fnPc = "idle"
    /\ fnOut = <<>>

\* a step of a running invocation: every action of GsNext changes gsPc or
\* gsI, and one of them is enabled whenever the invocation has not ended
GsProgress ==
    /\ gsPc \in {"called", "loop", "looping"}
    /\ gsPc' \in {"loop", "looping", "returned", "failed"}
    /\ gsI' \in 0..(MaxLen + MaxIter)

\* the function body has no await: once called it runs on to its end
SpecGsFair == GsFairInit /\ [][GsNext]_vars /\ WF_<<gsPc, gsI>>(GsProgress)

-----------------------------------------------------------------------------
(* Sample values of the WAV parser.  A value is                             *)
(*   [k |-> "num", m |-> m, e |-> e]   the dyadic rational m * 2^(-e),      *)
(*                                     m odd, or m = 0 and e = 0            *)
(*   [k |-> "inf", m |-> +1 / -1, e |-> 0]   +Infinity / -Infinity          *)
(*   [k |-> "nan", m |-> 0, e |-> 0]         NaN                            *)

RECURSIVE Pow2(_)
Pow2(k) == IF k <= 0 THEN 1 ELSE 2 * Pow2(k - 1)

RECURSIVE DNum(_, _)
DNum(m, e) ==
    IF m = 0 THEN [k |-> "num", m |-> 0, e |-> 0]
    ELSE IF m % 2 = 0 THEN DNum(m \div 2, e - 1)
    ELSE [k |-> "num", m |-> m, e |-> e]

DNaN == [k |-> "nan", m |-> 0, e |-> 0]
DInf(s) == [k |-> "inf", m |-> s, e |-> 0]
DOne == DNum(1, 0)
DMinusOne == DNum(-1, 0)

\* x > 1 and x < -1 for a "num" value
DAboveOne(x) ==
    /\ x.m > 0
    /\ IF x.e <= 0 THEN ~(x.m = 1 /\ x.e = 0)
       ELSE x.e < 31 /\ x.m > Pow2(x.e)

DBelowMinusOne(x) ==
    /\ x.m < 0
    /\ IF x.e <= 0 THEN ~(x.m = -1 /\ x.e = 0)
       ELSE x.e < 31 /\ -x.m > Pow2(x.e)

\* Math.max(-1.0, Math.min(1.0, x)); both return NaN for a NaN argument
Clamp(x) ==
    CASE x.k = "nan" -> DNaN
      [] x.k = "inf" -> IF x.m > 0 THEN DOne ELSE DMinusOne
      [] OTHER -> IF DAboveOne(x) THEN DOne
                  ELSE IF DBelowMinusOne(x) THEN DMinusOne
                  ELSE x

RECURSIVE BitLen(_)
BitLen(a) == IF a = 0 THEN 0 ELSE 1 + BitLen(a \div 2)

\* round q + r/d to an integer, ties to even
RoundHalfEven(q, r, d) ==
    IF 2 * r > d \/ (2 * r = d /\ q % 2 = 1) THEN q + 1 ELSE q

\* storing a number into a Float32Array: round to 24 significant bits, ties
\* to even (the exponents of the model stay inside the float32 range)
Fround(x) ==
    IF x.k # "num" THEN x
    ELSE LET a == Abs(x.m)
             sh == BitLen(a) - 24
         IN  IF sh <= 0 THEN x
             ELSE LET q == RoundHalfEven(a \div Pow2(sh), a % Pow2(sh), Pow2(sh))
                  IN  DNum(Sgn(x.m) * q, x.e - sh)

\* x + y in double precision; exact whenever the aligned sum fits the model's
\* integers, which the inputs of the model guarantee
DAdd(x, y) ==
    IF x.k = "nan" \/ y.k = "nan" THEN DNaN
    ELSE IF x.k = "inf" /\ y.k = "inf" THEN (IF x.m = y.m THEN x ELSE DNaN)
    ELSE IF x.k = "inf" THEN x
    ELSE IF y.k = "inf" THEN y
    ELSE LET e == IF x.e > y.e THEN x.e ELSE y.e
         IN  DNum(x.m * Pow2(e - x.e) + y.m * Pow2(e - y.e), e)

RECURSIVE ScaleUp(_, _, _)
ScaleUp(a, d, e) ==
    IF a \div 8388608 >= d THEN <<a, e>> ELSE ScaleUp(2 * a, d, e + 1)

\* (x / n) stored into a Float32Array, n a positive integer
DDivFround(x, n) ==
    IF x.k # "num" THEN x
    ELSE IF x.m = 0 THEN x
    ELSE LET s == ScaleUp(Abs(x.m), n, x.e)
             q == RoundHalfEven(s[1] \div n, s[1] % n, n)
         IN  Fround(DNum(Sgn(x.m) * q, s[2]))

IsFiniteInUnit(x) == x.k = "num" /\ ~DAboveOne(x) /\ ~DBelowMinusOne(x)

-----------------------------------------------------------------------------
(* DataView reads (little-endian); offsets count from 0                     *)

U8(b, off) == b[off + 1]

InBounds(b, off, size) == off >= 0 /\ off + size <= Len(b)

getUint16(b, off) == U8(b, off) + 256 * U8(b, off + 1)

getUint32(b, off) ==
    U8(b, off) + 256 * U8(b, off + 1) + 65536 * U8(b, off + 2)
        + 16777216 * U8(b, off + 3)

getInt16(b, off) ==
    LET u == getUint16(b, off) IN IF u >= 32768 THEN u - 65536 ELSE u

getInt32(b, off) ==
    LET hi == U8(b, off + 3)
    IN  16777216 * (IF hi >= 128 THEN hi - 256 ELSE hi)
            + 65536 * U8(b, off + 2) + 256 * U8(b, off + 1) + U8(b, off)

\* IEEE 754 binary32
getFloat32(b, off) ==
    LET b3 == U8(b, off + 3)
        b2 == U8(b, off + 2)
        sign == IF b3 >= 128 THEN -1 ELSE 1
        ex == 2 * (b3 % 128) + (b2 \div 128)
        mant == 65536 * (b2 % 128) + 256 * U8(b, off + 1) + U8(b, off)
    IN  IF ex = 255 THEN (IF mant = 0 THEN DInf(sign) ELSE DNaN)
        ELSE IF ex = 0 THEN DNum(sign * mant, 149)
        ELSE DNum(sign * (8388608 + mant), 150 - ex)

\* String.fromCharCode of the four bytes at off
ChunkId(b, off) == <<U8(b, off), U8(b, off + 1), U8(b, off + 2), U8(b, off + 3)>>

RIFF == <<82, 73, 70, 70>>
WAVE == <<87, 65, 86, 69>>
FMT == <<102, 109, 116, 32>>
DATA == <<100, 97, 116, 97>>

-----------------------------------------------------------------------------
(* utils/wav_parser.js : extractRawPCMFromWAV                               *)

WavError(msg) == [ok |-> FALSE, error |-> msg]

RangeErr == "RangeError: Offset is outside the bounds of the DataView"

\* the chunk scans start after "RIFFxxxxWAVE"
FirstChunkOffset == 12

\* the offset after a chunk: ID + size + data, plus a pad byte if size is odd
NextChunkOffset(off, chunkSize) ==
    off + 8 + chunkSize + (IF chunkSize % 2 # 0 THEN 1 ELSE 0)

\* the scan for the 'fmt ' sub-chunk: its offset, or -1 when the loop ends
\* without finding it
RECURSIVE FindFmt(_, _)
FindFmt(b, fmtOffset) ==
    IF ~(fmtOffset < Len(b) - 8) THEN -1
    ELSE IF ChunkId(b, fmtOffset) = FMT THEN fmtOffset
    ELSE FindFmt(b, NextChunkOffset(fmtOffset, getUint32(b, fmtOffset + 4)))

\* the scan for the 'data' sub-chunk: [found, dataOffset, dataChunkSize]
RECURSIVE FindData(_, _)
FindData(b, dataOffset) ==
    IF ~(dataOffset < Len(b) - 8)
    THEN [found |-> FALSE, dataOffset |-> dataOffset, dataChunkSize |-> 0]
    ELSE LET chunkSize == getUint32(b, dataOffset + 4)
         IN  IF ChunkId(b, dataOffset) = DATA
             THEN [found |-> TRUE, dataOffset |-> dataOffset + 8,
                   dataChunkSize |-> chunkSize]
             ELSE FindData(b, NextChunkOffset(dataOffset, chunkSize))

\* a plausible slip: the 24-bit value is not sign-extended and 8-bit samples
\* are not centred
DecodeSampleUnsigned(b, off, bitsPerSample, audioFormat) ==
    CASE bitsPerSample = 8 ->
            [ok |-> TRUE, error |-> "", value |-> DNum(U8(b, off), 7)]
      [] bitsPerSample = 16 ->
            [ok |-> TRUE, error |-> "", value |-> DNum(getInt16(b, off), 15)]
      [] bitsPerSample = 24 ->
            LET raw == 65536 * U8(b, off + 2) + 256 * U8(b, off + 1) + U8(b, off)
            IN  [ok |-> TRUE, error |-> "", value |-> DNum(raw, 23)]
      [] bitsPerSample = 32 ->
            IF audioFormat = 1
            THEN [ok |-> TRUE, error |-> "", value |-> DNum(getInt32(b, off), 31)]
            ELSE IF audioFormat = 3
            THEN [ok |-> TRUE, error |-> "", value |-> getFloat32(b, off)]
            ELSE [ok |-> FALSE, error |-> "Unsupported 32-bit WAV format type",
                  value |-> DNaN]
      [] OTHER ->
            [ok |-> FALSE, error |-> "Unsupported WAV bit depth", value |-> DNaN]

\* the switch on bitsPerSample for the sample at byte offset off:
\* [ok, value] with the normalizedValue, or [ok = FALSE, error]
DecodeSample(b, off, bitsPerSample, audioFormat) ==
    CASE bitsPerSample = 8 ->
            [ok |-> TRUE, error |-> "", value |-> DNum(U8(b, off) - 128, 7)]
      [] bitsPerSample = 16 ->
            [ok |-> TRUE, error |-> "", value |-> DNum(getInt16(b, off), 15)]
      [] bitsPerSample = 24 ->
            LET raw == 65536 * U8(b, off + 2) + 256 * U8(b, off + 1) + U8(b, off)
                ext == IF raw >= 8388608 THEN raw - 16777216 ELSE raw
            IN  [ok |-> TRUE, error |-> "", value |-> DNum(ext, 23)]
      [] bitsPerSample = 32 ->
            IF audioFormat = 1
            THEN [ok |-> TRUE, error |-> "", value |-> DNum(getInt32(b, off), 31)]
            ELSE IF audioFormat = 3
            THEN [ok |-> TRUE, error |-> "", value |-> getFloat32(b, off)]
            ELSE [ok |-> FALSE, error |-> "Unsupported 32-bit WAV format type",
                  value |-> DNaN]
      [] OTHER ->
            [ok |-> FALSE, error |-> "Unsupported WAV bit depth", value |-> DNaN]

\* the extraction loop from sample index i on; acc are the values stored so
\* far.  Positions are counted in bits (bytesPerSample = bitsPerSample / 8
\* need not be an integer).
RECURSIVE DecodeLoop(_, _, _, _, _, _, _, _)
DecodeLoop(b, dataOffset, dataChunkSize, bitsPerSample, audioFormat, totalSamples, i, acc) ==
    IF ~QLt(QInt(i), totalSamples) THEN [ok |-> TRUE, error |-> "", stored |-> acc]
    ELSE IF \/ 8 * dataOffset + (i + 1) * bitsPerSample
                   > 8 * (dataOffset + dataChunkSize)
            \/ 8 * dataOffset + (i + 1) * bitsPerSample > 8 * Len(b)
    THEN [ok |-> TRUE, error |-> "", stored |-> acc]
    ELSE LET s == DecodeSample(b, dataOffset + ((i * bitsPerSample) \div 8),
                               bitsPerSample, audioFormat)
         IN  IF ~s.ok THEN [ok |-> FALSE, error |-> s.error, stored |-> acc]
             ELSE DecodeLoop(b, dataOffset, dataChunkSize, bitsPerSample,
                             audioFormat, totalSamples, i + 1,
                             Append(acc, Fround(Clamp(s.value))))

\* a plausible slip: the mixdown always halves the sum (stereo assumed)
MonoSamplesHalved(finalSamples, numChannels, frames) ==
    [i \in 1..frames |->
        LET sum == LET RECURSIVE S(_)
                       S(ch) == IF ch = 0 THEN DNum(0, 0)
                                ELSE DAdd(S(ch - 1),
                                          finalSamples[(i - 1) * numChannels + ch])
                   IN  S(numChannels)
        IN  DDivFround(sum, 2)]

\* the mono mixdown: monoSamples[i] = sum over channels / numChannels
MonoSamples(finalSamples, numChannels, frames) ==
    [i \in 1..frames |->
        LET sum == LET RECURSIVE S(_)
                       S(ch) == IF ch = 0 THEN DNum(0, 0)
                                ELSE DAdd(S(ch - 1),
                                          finalSamples[(i - 1) * numChannels + ch])
                   IN  S(numChannels)
        IN  DDivFround(sum, numChannels)]

\* the parse from the format information on
ParseFromFmt(b, fmtOffset) ==
    LET audioFormat == getUint16(b, fmtOffset + 8)
        numChannels == getUint16(b, fmtOffset + 10)
        sampleRate == getUint32(b, fmtOffset + 12)
        bitsPerSample == getUint16(b, fmtOffset + 22)
        data == FindData(b, FirstChunkOffset)
        totalSamples == QDiv(QInt(8 * data.dataChunkSize), QInt(bitsPerSample))
        numSamplesPerChannel == QDiv(totalSamples, QInt(numChannels))
        loop == DecodeLoop(b, data.dataOffset, data.dataChunkSize, bitsPerSample,
                           audioFormat, totalSamples, 0, <<>>)
        actualExtractedSamples == Len(loop.stored)
        finalSamples == loop.stored
        actualNumSamplesPerChannel ==
            QFloor(QDiv(QInt(actualExtractedSamples), QInt(numChannels)))
        monoSamples == IF numChannels > 1
                       THEN MonoSamples(finalSamples, numChannels,
                                        actualNumSamplesPerChannel.n)
                       ELSE finalSamples
    IN  IF ~data.found THEN WavError("Invalid WAV file: No \"data\" chunk")
        ELSE IF QLe(numSamplesPerChannel, QInt(0))
        THEN WavError("Invalid WAV file: Data chunk is empty")
        ELSE IF totalSamples = QPosInf
        THEN WavError("RangeError: Invalid typed array length")
        ELSE IF ~loop.ok THEN WavError(loop.error)
        ELSE [ok |-> TRUE, error |-> "",
              samples |-> monoSamples,
              originalSamples |-> finalSamples,
              sampleRate |-> sampleRate,
              numChannels |-> numChannels,
              bitsPerSample |-> bitsPerSample,
              numSamples |-> actualNumSamplesPerChannel,
              duration |-> QDiv(actualNumSamplesPerChannel, QInt(sampleRate))]

\* a plausible slip: only the RIFF magic is verified
extractRawPCMFromWAVNoWaveCheck(b) ==
    IF ~InBounds(b, 0, 4) THEN WavError(RangeErr)
    ELSE IF ChunkId(b, 0) # RIFF THEN WavError("Invalid WAV file: No RIFF header")
    ELSE LET fmtOffset == FindFmt(b, FirstChunkOffset)
         IN  IF fmtOffset < 0 THEN WavError("Invalid WAV file: No \"fmt \" chunk")
             ELSE IF ~InBounds(b, fmtOffset + 8, 16) THEN WavError(RangeErr)
             ELSE ParseFromFmt(b, fmtOffset)

\* extractRawPCMFromWAV on the decoded bytes b
extractRawPCMFromWAV(b) ==
    IF ~InBounds(b, 0, 4) THEN WavError(RangeErr)
    ELSE IF ChunkId(b, 0) # RIFF THEN WavError("Invalid WAV file: No RIFF header")
    ELSE IF ~InBounds(b, 8, 4) THEN WavError(RangeErr)
    ELSE IF ChunkId(b, 8) # WAVE THEN WavError("Invalid WAV file: No WAVE format")
    ELSE LET fmtOffset == FindFmt(b, FirstChunkOffset)
         IN  IF fmtOffset < 0 THEN WavError("Invalid WAV file: No \"fmt \" chunk")
             ELSE IF ~InBounds(b, fmtOffset + 8, 16) THEN WavError(RangeErr)
             ELSE ParseFromFmt(b, fmtOffset)

-----------------------------------------------------------------------------
(* extractRawPCMFromWAV: the buffers the model parses                       *)

MaxSamples == 4    \* most samples in the payload of a data chunk
MaxChunks == 3     \* most chunks after the RIFF header in a layout

U16LE(n) == <<n % 256, (n \div 256) % 256>>

U32LE(n) == <<n % 256, (n \div 256) % 256, (n \div 65536) % 256,
              (n \div 16777216) % 256>>

RECURSIVE Concat(_)
Concat(ss) == IF ss = <<>> THEN <<>> ELSE Head(ss) \o Concat(Tail(ss))

Zeros(n) == [j \in 1..n |-> 0]

WavHeader(riff, wave, riffSize) == riff \o U32LE(riffSize) \o wave

FmtChunk(audioFormat, numChannels, sampleRate, bitsPerSample) ==
    FMT \o U32LE(16) \o U16LE(audioFormat) \o U16LE(numChannels)
        \o U32LE(sampleRate)
        \o U32LE((sampleRate * numChannels * bitsPerSample) \div 8)
        \o U16LE((numChannels * bitsPerSample) \div 8)
        \o U16LE(bitsPerSample)

\* a data chunk that declares `declared` bytes and carries `payload`
DataChunk(declared, payload) == DATA \o U32LE(declared) \o payload

\* a LIST chunk of `size` zero bytes, padded to an even length
ListChunk(size) ==
    <<76, 73, 83, 84>> \o U32LE(size) \o Zeros(size + (size % 2))

\* the byte patterns of one sample, per bit depth and format code
SampleBytes(bitsPerSample, audioFormat) ==
    CASE bitsPerSample = 8 ->
            << <<0>>, <<64>>, <<192>>, <<128>>, <<255>>, <<127>>, <<1>> >>
      [] bitsPerSample = 16 ->
            << <<0, 0>>, <<0, 64>>, <<0, 192>>, <<255, 127>>, <<0, 128>>,
               <<1, 0>>, <<255, 255>> >>
      [] bitsPerSample = 24 ->
            << <<0, 0, 0>>, <<0, 0, 64>>, <<0, 0, 192>>, <<255, 255, 127>>,
               <<0, 0, 128>>, <<1, 0, 0>>, <<255, 255, 255>> >>
      [] bitsPerSample = 32 /\ audioFormat = 3 ->
            << <<0, 0, 0, 0>>, <<0, 0, 0, 63>>, <<0, 0, 0, 191>>,
               <<0, 0, 128, 63>>, <<0, 0, 0, 192>>, <<0, 0, 192, 127>>,
               <<0, 0, 128, 127>>, <<0, 0, 128, 255>>, <<1, 0, 0, 0>> >>
      [] bitsPerSample = 32 ->
            << <<0, 0, 0, 0>>, <<0, 0, 0, 64>>, <<0, 0, 0, 192>>,
               <<255, 255, 255, 127>>, <<0, 0, 0, 128>>, <<1, 0, 0, 1>>,
               <<255, 255, 255, 255>>, <<3, 0, 0, 1>>, <<1, 0, 0, 0>> >>
      [] OTHER ->
            << <<0>>, <<64>>, <<192>>, <<255>> >>

\* a payload of n samples: the patterns taken cyclically from `start` on, every
\* `stride`-th one
Payload(bitsPerSample, audioFormat, n, start, stride) ==
    LET alphabet == SampleBytes(bitsPerSample, audioFormat)
    IN  Concat([j \in 1..n |->
                   alphabet[((start + (j - 1) * stride) % Len(alphabet)) + 1]])

\* (bitsPerSample, audioFormat) pairs
SampleFormats ==
    { <<8, 1>>, <<16, 1>>, <<24, 1>>, <<32, 1>>, <<32, 3>>, <<32, 2>>,
      <<16, 3>>, <<16, 2>>, <<12, 1>>, <<0, 1>>, <<20, 1>> }

ChannelCounts == {0, 1, 2, 3}
SampleRates == {0, 8000}

\* (the channel sums of the model are exact, fitting its integers, for every
\* depth but 32 bits, which is parsed with at most one channel)

\* family A: header, fmt chunk, data chunk; every format, channel count and
\* payload; the declared size exact, too large or too small; the buffer
\* possibly cut short
DecodeBuffers ==
    { LET f == fc[1]
          nc == fc[2]
          payload == Payload(f[1], f[2], n, start, stride)
          declared == IF Len(payload) + extra < 0 THEN 0 ELSE Len(payload) + extra
          full == WavHeader(RIFF, WAVE, 36 + Len(payload))
                    \o FmtChunk(f[2], nc, rate, f[1])
                    \o DataChunk(declared, payload)
      IN  IF cut > 0 /\ Len(payload) >= cut
          THEN SubSeq(full, 1, Len(full) - cut) ELSE full :
        fc \in { <<f, nc>> : f \in SampleFormats, nc \in ChannelCounts } \ 
                  { <<f, nc>> : f \in {g \in SampleFormats : g[1] = 32}, nc \in {2, 3} },
        rate \in SampleRates,
        n \in 0..MaxSamples, start \in 0..6, stride \in {0, 1},
        extra \in {0, 3, -1}, cut \in {0, 1} }

\* the chunks a layout is made of
LayoutChunks ==
    { FmtChunk(1, 1, 8000, 16),
      DataChunk(4, <<0, 64, 0, 192>>),
      DataChunk(0, <<>>),
      ListChunk(2), ListChunk(1), ListChunk(0) }

RECURSIVE Layouts(_)
Layouts(n) ==
    IF n = 0 THEN {<<>>}
    ELSE LET shorter == Layouts(n - 1)
         IN  shorter \cup { l \o c : l \in shorter, c \in LayoutChunks }

\* family B: every order of up to MaxChunks chunks, possibly cut short
LayoutBuffers ==
    { LET full == WavHeader(RIFF, WAVE, 4 + Len(l)) \o l
      IN  IF Len(full) - cut >= 12 THEN SubSeq(full, 1, Len(full) - cut) ELSE full :
        l \in Layouts(MaxChunks), cut \in {0, 1, 8} }

\* family C: wrong or missing magic in front of a well-formed rest
MagicBuffers ==
    { LET full == WavHeader(riff, wave, 40) \o FmtChunk(1, 1, 8000, 16)
                    \o DataChunk(4, <<0, 64, 0, 192>>)
      IN  SubSeq(full, 1, IF keep > Len(full) THEN Len(full) ELSE keep) :
        riff \in {RIFF, <<82, 73, 70, 88>>, <<114, 105, 102, 102>>},
        wave \in {WAVE, <<87, 65, 86, 88>>, FMT},
        keep \in {0, 3, 4, 8, 11, 12, 48} }

WavBuffers == DecodeBuffers \cup LayoutBuffers \cup MagicBuffers

-----------------------------------------------------------------------------
(* extractRawPCMFromWAV: the invocation                                     *)

WavInit ==
    /\ wavBuf \in WavBuffers
    /\ wavPc = "called"
    /\ wavOut = [ok |-> FALSE, error |-> ""]
    /\ gsInput = [kind |-> "missing", data |-> <<>>]
    /\ gsOptions = [samplingRate |-> 0, fftSize |-> 0, overlap |-> QInt(0),
                    windowType |-> "rectangular"]
    /\ gsPc = "idle"
    /\ gsSamples = <<>>
    /\ gsHop = QInt(0)
    /\ gsTotal = QInt(0)
    /\ gsI = 0
    /\ gsRows = <<>>
    /\ gsTimes = <<>>
    /\ gsFreqs = <<>>
    /\ gsSkipped = 0
    /\ gsError = ""
    /\ gsReturnedOptions = <<>>
    /\ screen = ScrUnmounted
    /\ fnArgs = <<>>
    /\ fnPc = "idle"
    /\ fnOut = <<>>

WavParse ==
    /\ wavPc = "called"
    /\ LET r == extractRawPCMFromWAV(wavBuf)
       IN  /\ wavOut' = r
           /\ wavPc' = IF r.ok THEN "returned" ELSE "threw"
    /\ UNCHANGED wavBuf
    /\ UNCHANGED <<gsVars, fnVars, scrVars>>

WavNext == WavParse

-----------------------------------------------------------------------------
(* Properties of generateSpectrogram                                        *)

StrictlyIncreasing(f) == \A k \in 1..(Len(f) - 1) : QLt(f[k], f[k + 1])

NonDecreasing(f) == \A k \in 1..(Len(f) - 1) : QLe(f[k], f[k + 1])

AxisInvariants ==
    /\ Len(gsTimes) = Len(gsRows)
    /\ \A r \in 1..Len(gsRows) : Len(gsRows[r]) = Len(gsFreqs)
    /\ 2 * Len(gsFreqs) = gsOptions.fftSize
    /\ StrictlyIncreasing(gsFreqs)
    /\ NonDecreasing(gsTimes)

\* C1 as stated: every returned result, whatever the fftSize, overlap and
\* samplingRate, has times.length = spectrogram.length, rows of length
\* frequencies.length = fftSize/2, strictly increasing frequencies and
\* non-decreasing times.
C1_AxisInvariantsAnyRate == gsPc = "returned" => AxisInvariants

\* C1 amended: the axis invariants hold of every returned result whose
\* samplingRate is positive.
C1_AxisInvariants ==
    (gsPc = "returned" /\ gsOptions.samplingRate > 0) => AxisInvariants

C1_Witness ==
    /\ gsPc = "returned"
    /\ gsOptions.samplingRate > 0
    /\ Len(gsRows) >= 3
    /\ Len(gsFreqs) = 2

FloorDiv(a, b) == IF b > 0 THEN a \div b ELSE (-a) \div (-b)

\* the frame count the reference names; at least one frame in every case
ExpectedFrames(N, fftSize, hopSize) ==
    IF hopSize = 0 THEN 1
    ELSE LET c == FloorDiv(N - fftSize, hopSize) + 1 IN IF c < 1 THEN 1 ELSE c

\* C2: a returned result has exactly max(1, floor((N - fftSize)/hopSize) + 1)
\* frames, N the padded input length; an input of fftSize samples or fewer
\* gives 1 frame and one of fftSize + hopSize samples gives 2.
C2_FrameCount ==
    gsPc = "returned" =>
        /\ Len(gsRows) = ExpectedFrames(Len(gsSamples), gsOptions.fftSize, gsHop.n)
        /\ Len(gsInput.data) <= gsOptions.fftSize => Len(gsRows) = 1
        /\ Len(gsInput.data) = gsOptions.fftSize + gsHop.n /\ gsHop.n > 0
              => Len(gsRows) = 2

\* C3: for a non-empty input with overlap >= 1 or fftSize <= 0 the invocation
\* fails before any frame is computed and never returns a result.
C3_InvalidOptionsRejected ==
    ( /\ gsPc # "called"
      /\ gsInput.kind # "missing" /\ Len(gsInput.data) > 0
      /\ (QLe(QInt(1), gsOptions.overlap) \/ gsOptions.fftSize <= 0) )
    => (gsPc = "failed" /\ gsRows = <<>> /\ gsI = 0)

\* C4: a missing input, an empty array and an empty Float32Array are rejected
\* with an error and no result, whatever the options.
C4_EmptyInputRejected ==
    ( /\ gsPc # "called"
      /\ (gsInput.kind = "missing" \/ Len(gsInput.data) = 0) )
    => ( /\ gsPc = "failed"
         /\ gsError = "Invalid empty input data"
         /\ gsRows = <<>> /\ gsTimes = <<>> /\ gsFreqs = <<>> )

C4_Witness ==
    /\ gsPc = "failed"
    /\ gsInput.kind = "f32" /\ Len(gsInput.data) = 0
    /\ gsOptions.fftSize = 4 /\ gsOptions.overlap = Q(1, 2)
    /\ gsOptions.samplingRate > 0

SpecWav == WavInit /\ [][WavNext]_vars

-----------------------------------------------------------------------------
(* Properties of extractRawPCMFromWAV                                       *)

\* the buffer read directly, without the parser's helpers
BytesAt(b, off, n) == IF off + n <= Len(b) THEN SubSeq(b, off + 1, off + n) ELSE <<>>

RefU32(b, off) ==
    b[off + 1] + 256 * (b[off + 2] + 256 * (b[off + 3] + 256 * b[off + 4]))

ValidMagic(b) ==
    BytesAt(b, 0, 4) = <<82, 73, 70, 70>> /\ BytesAt(b, 8, 4) = <<87, 65, 86, 69>>

\* the chunk sequence of a buffer: the offset of the first chunk with this id
\* among the chunks whose 8-byte header lies inside the buffer, or -1
RECURSIVE RefFirstChunk(_, _, _)
RefFirstChunk(b, off, id) ==
    IF off + 8 > Len(b) THEN -1
    ELSE IF BytesAt(b, off, 4) = id THEN off
    ELSE LET size == RefU32(b, off + 4)
         IN  RefFirstChunk(b, off + 8 + size + (size % 2), id)

RefFmt(b) == RefFirstChunk(b, 12, <<102, 109, 116, 32>>)
RefData(b) == RefFirstChunk(b, 12, <<100, 97, 116, 97>>)

NoFmtError == "Invalid WAV file: No \"fmt \" chunk"
NoDataError == "Invalid WAV file: No \"data\" chunk"

\* C5: a buffer whose bytes 0-3 are not "RIFF" or whose bytes 8-11 are not
\* "WAVE" is never parsed into a result: the call throws, with the RIFF / WAVE
\* message when the bytes are there and a RangeError when the buffer ends
\* before them.
C5_BadMagicRejected ==
    (wavPc # "called" /\ ~ValidMagic(wavBuf)) =>
        /\ wavPc = "threw" /\ ~wavOut.ok
        /\ (Len(wavBuf) >= 4 /\ BytesAt(wavBuf, 0, 4) # <<82, 73, 70, 70>>)
              => wavOut.error = "Invalid WAV file: No RIFF header"
        /\ (Len(wavBuf) >= 12 /\ BytesAt(wavBuf, 0, 4) = <<82, 73, 70, 70>>)
              => wavOut.error = "Invalid WAV file: No WAVE format"
        /\ Len(wavBuf) < 4 => wavOut.error = RangeErr

C5_Witness ==
    /\ wavPc = "threw"
    /\ Len(wavBuf) = 48
    /\ BytesAt(wavBuf, 0, 4) = <<82, 73, 70, 70>>
    /\ BytesAt(wavBuf, 8, 4) = <<87, 65, 86, 88>>
    /\ RefFmt(wavBuf) = 12 /\ RefData(wavBuf) = 36

\* C6: with valid magic, the first "fmt " chunk and the first "data" chunk of
\* the chunk sequence are located whatever their order and the chunks around
\* them, and the parse fails with a format error when either is missing.
C6_ChunksLocated ==
    (wavPc # "called" /\ ValidMagic(wavBuf)) =>
        /\ RefFmt(wavBuf) = -1 => (wavPc = "threw" /\ wavOut.error = NoFmtError)
        /\ RefData(wavBuf) = -1 => wavPc = "threw"
        /\ RefFmt(wavBuf) # -1 => wavOut.error # NoFmtError
        /\ RefData(wavBuf) # -1 => wavOut.error # NoDataError

\* the fmt fields read directly
RefU16(b, off) == b[off + 1] + 256 * b[off + 2]
RefBits(b) == RefU16(b, RefFmt(b) + 22)
RefFormat(b) == RefU16(b, RefFmt(b) + 8)

ChunksPresent(b) ==
    /\ ValidMagic(b)
    /\ RefFmt(b) # -1 /\ RefFmt(b) + 24 <= Len(b)
    /\ RefData(b) # -1

\* C7: with valid magic and both chunks present, a bitsPerSample other than
\* 8, 16, 24, 32 makes the parse fail; no result is ever returned.
C7_UnsupportedDepthRejected ==
    ( /\ wavPc # "called"
      /\ ChunksPresent(wavBuf)
      /\ RefBits(wavBuf) \notin {8, 16, 24, 32} )
    => wavPc = "threw"

\* the signed integer of a sample, read directly from the buffer
RefRaw(b, off, bitsPerSample) ==
    CASE bitsPerSample = 8 -> b[off + 1] - 128
      [] bitsPerSample = 16 ->
            LET u == b[off + 1] + 256 * b[off + 2]
            IN  IF u > 32767 THEN u - 65536 ELSE u
      [] bitsPerSample = 24 ->
            LET u == b[off + 1] + 256 * b[off + 2] + 65536 * b[off + 3]
            IN  IF u > 8388607 THEN u - 16777216 ELSE u
      [] OTHER ->
            LET top == IF b[off + 4] > 127 THEN b[off + 4] - 256 ELSE b[off + 4]
            IN  top * 16777216 + (b[off + 1] + 256 * b[off + 2] + 65536 * b[off + 3])

IntegerPcm(b) ==
    RefBits(b) \in {8, 16, 24} \/ (RefBits(b) = 32 /\ RefFormat(b) = 1)

\* C8: interleaved sample i of an integer PCM file is read at
\* data offset + i * (bitsPerSample / 8) and is raw / 2^(bitsPerSample - 1),
\* raw the signed little-endian integer there (the byte minus 128 for 8 bits);
\* the quotient is stored exactly up to 24 bits and rounded to single
\* precision for 32 bits.  8-bit 255 gives 127/128 and 0 gives -1.
C8_SampleNormalisation ==
    (wavPc = "returned" /\ ChunksPresent(wavBuf) /\ IntegerPcm(wavBuf)) =>
        LET bits == RefBits(wavBuf)
            first == RefData(wavBuf) + 8
        IN  \A i \in 1..Len(wavOut.originalSamples) :
              LET off == first + (i - 1) * (bits \div 8)
                  raw == RefRaw(wavBuf, off, bits)
                  x == wavOut.originalSamples[i]
              IN  /\ off + (bits \div 8) <= Len(wavBuf)
                  /\ x.k = "num"
                  /\ bits = 24 => (raw >= -8388608 /\ raw <= 8388607)
                  /\ bits < 32 =>
                        (x.m * Pow2(bits - 1 - x.e) = raw /\ x.e <= bits - 1)
                  /\ (bits = 32 /\ raw # 0 /\ raw > -16777216 /\ raw < 16777216) =>
                        (x.e >= 1 /\ x.e <= 31 /\ x.m * Pow2(31 - x.e) = raw)
                  /\ bits = 32 => x = Fround(DNum(raw, 31))
                  /\ (bits = 8 /\ wavBuf[off + 1] = 255) => x = DNum(127, 7)
                  /\ (bits = 8 /\ wavBuf[off + 1] = 0) => x = DNum(-1, 0)

C8_Witness ==
    /\ wavPc = "returned"
    /\ ChunksPresent(wavBuf)
    /\ RefBits(wavBuf) = 24
    /\ Len(wavOut.originalSamples) = 3
    /\ wavOut.originalSamples[1] = DNum(-1, 1)
    /\ wavOut.originalSamples[2] = DNum(8388607, 23)
    /\ wavOut.originalSamples[3] = DNum(-1, 0)

\* C9: every value of samples and originalSamples of a returned result is a
\* finite number in [-1, 1], whatever the bytes of the data chunk, 32-bit
\* float payloads included.
C9_SamplesFiniteInUnit ==
    wavPc = "returned" =>
        /\ \A i \in 1..Len(wavOut.samples) : IsFiniteInUnit(wavOut.samples[i])
        /\ \A i \in 1..Len(wavOut.originalSamples) :
              IsFiniteInUnit(wavOut.originalSamples[i])

\* the exact sum of the channels of frame i, in units of 2^-23
RECURSIVE RefFrameSum(_, _, _, _)
RefFrameSum(orig, i, numChannels, ch) ==
    IF ch = 0 THEN 0
    ELSE LET x == orig[(i - 1) * numChannels + ch]
         IN  RefFrameSum(orig, i, numChannels, ch - 1) + x.m * Pow2(23 - x.e)

\* y is the single-precision number nearest to sum23 * 2^-23 / n
NearestToMean(y, sum23, n) ==
    /\ y.k = "num"
    /\ LET E == IF y.e > 23 THEN y.e ELSE 23
           diff == Abs(n * y.m * Pow2(E - y.e) - sum23 * Pow2(E - 23))
           k == 24 - BitLen(Abs(y.m)) - (E - y.e)
       IN  IF k >= 1 THEN diff = 0 ELSE 2 * diff <= n * Pow2(-k)

\* C10: with more than one channel, mono sample i is the mean of the
\* numChannels interleaved samples of frame i (as a single-precision number:
\* exactly the mean for two channels); with one channel the mono buffer is
\* originalSamples.  Two channels at +0.5 and -0.5 give zeros.
C10_MonoMixdown ==
    wavPc = "returned" =>
        LET nc == wavOut.numChannels
            orig == wavOut.originalSamples
        IN  /\ nc = 1 => wavOut.samples = orig
            /\ nc > 1 =>
                 /\ Len(wavOut.samples) = Len(orig) \div nc
                 /\ \A i \in 1..Len(wavOut.samples) :
                       LET y == wavOut.samples[i]
                           sum23 == RefFrameSum(orig, i, nc, nc)
                       IN  /\ NearestToMean(y, sum23, nc)
                           /\ nc = 2 => (y.m * Pow2(24 - y.e) = sum23 /\ y.e <= 24)
                           /\ (nc = 2 /\ orig[2 * i - 1] = DNum(1, 1)
                                 /\ orig[2 * i] = DNum(-1, 1)) => y = DNum(0, 0)

C10_Witness ==
    /\ wavPc = "returned"
    /\ wavOut.numChannels = 2
    /\ Len(wavOut.originalSamples) = 4
    /\ wavOut.originalSamples[1] = DNum(1, 1)
    /\ wavOut.originalSamples[2] = DNum(-1, 1)
    /\ wavOut.samples[1] = DNum(0, 0)
    /\ wavOut.samples[2] = DNum(-1, 16)

\* the declared size of the data chunk and the bytes the buffer holds for it
RefDeclared(b) == RefU32(b, RefData(b) + 4)
RefAvailable(b) == Len(b) - (RefData(b) + 8)
RefChannels(b) == RefU16(b, RefFmt(b) + 10)
RefRate(b) == RefU32(b, RefFmt(b) + 12)

SupportedFormat(b) ==
    /\ RefBits(b) \in {8, 16, 24} \/ (RefBits(b) = 32 /\ RefFormat(b) \in {1, 3})
    /\ RefChannels(b) >= 1

TruncatedData(b) ==
    ChunksPresent(b) /\ SupportedFormat(b) /\ RefDeclared(b) > RefAvailable(b)

\* the result holds exactly the samples that lie wholly inside the buffer, in
\* order, and its counts follow the number decoded
DecodedUpToBufferEnd ==
    LET bytes == RefBits(wavBuf) \div 8
        first == RefData(wavBuf) + 8
        count == RefAvailable(wavBuf) \div bytes
        frames == count \div RefChannels(wavBuf)
    IN  /\ wavPc = "returned"
        /\ Len(wavOut.originalSamples) = count
        /\ IntegerPcm(wavBuf) =>
              \A i \in 1..count :
                 wavOut.originalSamples[i] =
                    Fround(DNum(RefRaw(wavBuf, first + (i - 1) * bytes,
                                       RefBits(wavBuf)),
                                RefBits(wavBuf) - 1))
        /\ wavOut.numSamples = QInt(frames)
        /\ wavOut.duration = QDiv(QInt(frames), QInt(RefRate(wavBuf)))
        /\ Len(wavOut.samples) = frames

\* C11: when the declared size of the data chunk runs past the end of the
\* buffer the parse does not fail; it returns, in order, exactly the samples
\* whose bytes lie inside the buffer, and numSamples and duration follow the
\* number of samples decoded.
C11_TruncatedDataDecoded ==
    (wavPc # "called" /\ TruncatedData(wavBuf)) => DecodedUpToBufferEnd

\* the same, for buffers that hold at least one byte of the data chunk
C11_TruncatedDataDecodedNonEmpty ==
    (wavPc # "called" /\ TruncatedData(wavBuf) /\ RefAvailable(wavBuf) >= 1)
        => DecodedUpToBufferEnd

C11_Witness ==
    /\ wavPc = "returned"
    /\ TruncatedData(wavBuf)
    /\ RefBits(wavBuf) = 16 /\ RefChannels(wavBuf) = 2
    /\ RefDeclared(wavBuf) = 8 /\ RefAvailable(wavBuf) = 7
    /\ Len(wavOut.originalSamples) = 3
    /\ wavOut.numSamples = QInt(1)

\* C19: with valid magic and both chunks present, an audio format code other
\* than 1 (integer PCM) and 3 (IEEE float) makes the parse fail, for every
\* bit depth; no sample of such a file is decoded.
C19_ExoticFormatRejected ==
    ( /\ wavPc # "called"
      /\ ChunksPresent(wavBuf)
      /\ RefFormat(wavBuf) \notin {1, 3} )
    => wavPc = "threw"

\* the same for 32-bit files holding at least one whole sample
C19_ExoticFormatRejected32 ==
    ( /\ wavPc # "called"
      /\ ChunksPresent(wavBuf)
      /\ RefFormat(wavBuf) \notin {1, 3}
      /\ RefBits(wavBuf) = 32 /\ RefChannels(wavBuf) >= 1
      /\ RefDeclared(wavBuf) >= 4 /\ RefAvailable(wavBuf) >= 4 )
    => (wavPc = "threw" /\ wavOut.error = "Unsupported 32-bit WAV format type")

\* C21: on every returned result numSamples is the length of the mono
\* samples buffer and duration is numSamples / sampleRate, for every channel
\* count and sample rate of the fmt chunk.
C21_NumSamplesAndDuration ==
    wavPc = "returned" =>
        /\ wavOut.numSamples = QInt(Len(wavOut.samples))
        /\ wavOut.duration = QDiv(QInt(Len(wavOut.samples)), QInt(wavOut.sampleRate))

\* the same for files that declare at least one channel
C21_NumSamplesAndDurationWithChannels ==
    (wavPc = "returned" /\ wavOut.numChannels >= 1) =>
        /\ wavOut.numSamples = QInt(Len(wavOut.samples))
        /\ wavOut.duration = QDiv(QInt(Len(wavOut.samples)), QInt(wavOut.sampleRate))

\* C28: on every returned result originalSamples holds whole sample frames
\* only: its length is numSamples * numChannels, also when decoding stopped
\* early on a truncated data chunk.
C28_WholeFrames ==
    wavPc = "returned" =>
        QInt(Len(wavOut.originalSamples))
            = QMul(wavOut.numSamples, QInt(wavOut.numChannels))

\* the same when the bytes inside chunk and buffer hold whole frames
C28_WholeFramesAligned ==
    ( /\ wavPc = "returned"
      /\ wavOut.numChannels >= 1
      /\ Len(wavOut.originalSamples) % wavOut.numChannels = 0 )
    => QInt(Len(wavOut.originalSamples))
           = QMul(wavOut.numSamples, QInt(wavOut.numChannels))

-----------------------------------------------------------------------------
(* The WAV encoder of the recording screen (app/(tabs)/index.tsx) and the   *)
(* round trip through extractRawPCMFromWAV                                  *)

MaxRt == 3

\* int16Samples[i] = Math.max(-1, Math.min(1, floatSamples[i])) * 0x7FFF:
\* the Int16Array store truncates the product toward zero (NaN gives 0)
FloatToInt16(x) ==
    LET c == Clamp(x)
    IN  IF c.k # "num" THEN 0
        ELSE IF c.m >= 0 THEN (c.m * 32767) \div Pow2(c.e)
        ELSE -(((-c.m) * 32767) \div Pow2(c.e))

\* the integer part of a / b, as setUint16 and setUint32 take it of a fraction
TruncDiv(a, b) == IF a >= 0 THEN a \div b ELSE -((-a) \div b)

\* blockAlign = (numChannels * bitDepth) / 8 and byteRate = sampleRate *
\* blockAlign are fractions; each is truncated only when it is written
createWavHeader(sampleRate, numChannels, bitDepth, dataLength) ==
    LET blockAlign == TruncDiv(numChannels * bitDepth, 8)
        byteRate == TruncDiv(sampleRate * numChannels * bitDepth, 8)
    IN  RIFF \o U32LE(36 + dataLength) \o WAVE
          \o FMT \o U32LE(16) \o U16LE(1) \o U16LE(numChannels)
          \o U32LE(sampleRate) \o U32LE(byteRate) \o U16LE(blockAlign)
          \o U16LE(bitDepth)
          \o DATA \o U32LE(dataLength)

\* the two bytes of a 16-bit sample: s & 0xff, then (s >> 8) & 0xff
Int16Bytes(s) == <<s % 256, (s \div 256) % 256>>

encodeWav(int16Samples, sampleRate, numChannels) ==
    createWavHeader(sampleRate, numChannels, 16, Len(int16Samples) * 2)
        \o Concat([i \in 1..Len(int16Samples) |-> Int16Bytes(int16Samples[i])])

\* original samples in [-1, 1]
RtOriginals ==
    {DNum(0, 0), DOne, DMinusOne, DNum(1, 1), DNum(3, 2), DNum(-3, 2),
     DNum(29491, 15), DNum(58983, 16), DNum(-58983, 16), DNum(-1, 16)}

RtInputs == UNION {[1..n -> RtOriginals] : n \in 0..MaxRt}

RtInit ==
    /\ fnArgs \in RtInputs
    /\ fnPc = "called"
    /\ fnOut = <<>>
    /\ wavBuf = <<>>
    /\ wavPc = "idle"
    /\ wavOut = [ok |-> FALSE, error |-> ""]
    /\ gsInput = [kind |-> "missing", data |-> <<>>]
    /\ gsOptions = [samplingRate |-> 0, fftSize |-> 0, overlap |-> QInt(0),
                    windowType |-> "rectangular"]
    /\ gsPc = "idle"
    /\ gsSamples = <<>>
    /\ gsHop = QInt(0)
    /\ gsTotal = QInt(0)
    /\ gsI = 0
    /\ gsRows = <<>>
    /\ gsTimes = <<>>
    /\ gsFreqs = <<>>
    /\ gsSkipped = 0
    /\ gsError = ""
    /\ gsReturnedOptions = <<>>
    /\ screen = ScrUnmounted

\* the conversion to 16-bit integers and the encoding of the WAV buffer,
\* handed to the parser
RtEncode ==
    /\ fnPc = "called"
    /\ LET int16Samples == [i \in 1..Len(fnArgs) |-> FloatToInt16(fnArgs[i])]
       IN  /\ fnOut' = int16Samples
           /\ wavBuf' = encodeWav(int16Samples, 44100, 1)
    /\ fnPc' = "returned"
    /\ wavPc' = "called"
    /\ UNCHANGED <<fnArgs, wavOut, gsVars, scrVars>>

RtNext == RtEncode \/ WavParse

SpecRoundTrip == RtInit /\ [][RtNext]_vars

\* |y - x| <= num / 32768 for two sample values
WithinOf(y, x, num) ==
    /\ y.k = "num" /\ x.k = "num"
    /\ LET E == IF x.e > y.e THEN (IF x.e > 15 THEN x.e ELSE 15)
                ELSE (IF y.e > 15 THEN y.e ELSE 15)
       IN  Abs(y.m * Pow2(E - y.e) - x.m * Pow2(E - x.e)) <= num * Pow2(E - 15)

RoundTripDone == fnPc = "returned" /\ wavPc # "called" /\ Len(fnArgs) >= 1

\* C12: N >= 1 originals in [-1, 1], converted to 16-bit integers, encoded as
\* a mono 16-bit WAV and parsed back, give N samples, each within 1/32768 of
\* its original.
C12_RoundTrip ==
    RoundTripDone =>
        /\ wavPc = "returned"
        /\ Len(wavOut.samples) = Len(fnArgs)
        /\ \A i \in 1..Len(fnArgs) : WithinOf(wavOut.samples[i], fnArgs[i], 1)

\* the same with twice the tolerance
C12_RoundTripWithinTwo ==
    RoundTripDone =>
        /\ wavPc = "returned"
        /\ Len(wavOut.samples) = Len(fnArgs)
        /\ \A i \in 1..Len(fnArgs) : WithinOf(wavOut.samples[i], fnArgs[i], 2)

-----------------------------------------------------------------------------
(* applyIIRFilter (utils/iirFilter): Direct Form I over a Float32Array      *)

MaxIir == 3
MaxCoef == 2

\* x * y in double precision (exact for the values of the model)
DMul(x, y) ==
    IF x.k = "nan" \/ y.k = "nan" THEN DNaN
    ELSE IF x.k = "inf" \/ y.k = "inf"
    THEN (IF x.m = 0 \/ y.m = 0 THEN DNaN ELSE DInf(Sgn(x.m) * Sgn(y.m)))
    ELSE DNum(x.m * y.m, x.e + y.e)

DNeg(x) == [x EXCEPT !.m = -x.m]

DSub(x, y) == DAdd(x, DNeg(y))

\* x / d in double precision, d a power of two or its negative (every
\* divisor of the model), or NaN
DDivPow2(x, d) ==
    IF x.k = "nan" \/ d.k = "nan" THEN DNaN
    ELSE IF x.k = "inf" THEN DInf(Sgn(x.m) * Sgn(d.m))
    ELSE DNum(x.m * Sgn(d.m), x.e - d.e)

\* a value that `||` treats as false: 0 and NaN (and a missing element)
IsFalsy(x) == x.k = "nan" \/ (x.k = "num" /\ x.m = 0)

\* a plausible slip: the coefficients are taken as normalised
A0Unnormalised(a) == DOne

\* const a0 = a[0] || 1
A0Of(a) == IF Len(a) = 0 \/ IsFalsy(a[1]) THEN DOne ELSE a[1]

\* a plausible slip: the current sample is left out
InSignalStrict(n, k) == n - k > 0

\* the guard of both sums: no sample before the start of the signal
InSignal(n, k) == n - k >= 0

\* a plausible slip: the output holds only the fully overlapped part
FilteredLengthValid(samples, b) ==
    IF Len(samples) >= Len(b) THEN Len(samples) - Len(b) + 1 ELSE 0

\* new Float32Array(samples.length)
FilteredLength(samples, b) == Len(samples)

\* feedforwardSum, from coefficient k on (indices from 0 as in the code)
RECURSIVE FeedforwardSum(_, _, _, _, _)
FeedforwardSum(samples, b, n, k, acc) ==
    IF k >= Len(b) THEN acc
    ELSE FeedforwardSum(samples, b, n, k + 1,
                        IF InSignal(n, k)
                        THEN DAdd(acc, DMul(b[k + 1], samples[n - k + 1]))
                        ELSE acc)

\* feedbackSum, from coefficient k on; a read past the end of the output
\* buffer gives undefined, NaN in the product
RECURSIVE FeedbackSum(_, _, _, _, _)
FeedbackSum(filteredSamples, a, n, k, acc) ==
    IF k >= Len(a) THEN acc
    ELSE FeedbackSum(filteredSamples, a, n, k + 1,
                     IF InSignal(n, k)
                     THEN DAdd(acc, DMul(a[k + 1],
                                         IF n - k + 1 <= Len(filteredSamples)
                                         THEN filteredSamples[n - k + 1]
                                         ELSE DNaN))
                     ELSE acc)

\* the loop over n; a store past the end of the output buffer is dropped
RECURSIVE IirLoop(_, _, _, _, _, _)
IirLoop(samples, b, a, a0, n, filteredSamples) ==
    IF n >= Len(samples) THEN filteredSamples
    ELSE LET feedforwardSum == FeedforwardSum(samples, b, n, 0, DNum(0, 0))
             feedbackSum == FeedbackSum(filteredSamples, a, n, 1, DNum(0, 0))
             y == Fround(DDivPow2(DSub(feedforwardSum, feedbackSum), a0))
         IN  IirLoop(samples, b, a, a0, n + 1,
                     IF n + 1 <= Len(filteredSamples)
                     THEN [filteredSamples EXCEPT ![n + 1] = y]
                     ELSE filteredSamples)

applyIIRFilter(samples, b, a) ==
    IirLoop(samples, b, a, A0Of(a), 0,
            [i \in 1..FilteredLength(samples, b) |-> DNum(0, 0)])

IirSampleValues == {DOne, DNum(-1, 1), DNum(3, 2), DNaN}
IirBValues == {DOne, DNum(-1, 1)}
IirA0Values == {DOne, DNum(0, 0), DNum(2, 0), DNaN}
IirATailValues == {DOne, DNum(2, 0)}

IirSamples == UNION {[1..n -> IirSampleValues] : n \in 0..MaxIir}
IirB == UNION {[1..n -> IirBValues] : n \in 0..MaxCoef}
IirA == {<<>>} \cup
        {<<a0>> \o tail : a0 \in IirA0Values,
                          tail \in UNION {[1..n -> IirATailValues] :
                                              n \in 0..(MaxCoef - 1)}}

IirInit ==
    /\ fnArgs \in [samples : IirSamples, b : IirB, a : IirA]
    /\ fnPc = "called"
    /\ fnOut = <<>>
    /\ wavBuf = <<>>
    /\ wavPc = "idle"
    /\ wavOut = [ok |-> FALSE, error |-> ""]
    /\ gsInput = [kind |-> "missing", data |-> <<>>]
    /\ gsOptions = [samplingRate |-> 0, fftSize |-> 0, overlap |-> QInt(0),
                    windowType |-> "rectangular"]
    /\ gsPc = "idle"
    /\ gsSamples = <<>>
    /\ gsHop = QInt(0)
    /\ gsTotal = QInt(0)
    /\ gsI = 0
    /\ gsRows = <<>>
    /\ gsTimes = <<>>
    /\ gsFreqs = <<>>
    /\ gsSkipped = 0
    /\ gsError = ""
    /\ gsReturnedOptions = <<>>
    /\ screen = ScrUnmounted

IirApply ==
    /\ fnPc = "called"
    /\ fnOut' = applyIIRFilter(fnArgs.samples, fnArgs.b, fnArgs.a)
    /\ fnPc' = "returned"
    /\ UNCHANGED <<fnArgs, wavVars, gsVars, scrVars>>

IirNext == IirApply

SpecIir == IirInit /\ [][IirNext]_vars

-----------------------------------------------------------------------------
(* Properties of applyIIRFilter                                             *)

\* C13: the returned buffer has the length of the input, for every input
\* length (0 included) and every b and a (empty ones included).
C13_SameLength ==
    fnPc = "returned" => Len(fnOut) = Len(fnArgs.samples)

C13_Witness ==
    /\ fnPc = "returned"
    /\ Len(fnArgs.samples) = 3 /\ Len(fnOut) = 3
    /\ fnArgs.b = <<>> /\ fnArgs.a = <<>>

\* C14: with b = [1] and a = [1] the output equals the input element by
\* element.
C14_IdentityFilter ==
    (fnPc = "returned" /\ fnArgs.b = <<DOne>> /\ fnArgs.a = <<DOne>>)
        => fnOut = fnArgs.samples

C14_Witness ==
    /\ fnPc = "returned"
    /\ fnArgs.b = <<DOne>> /\ fnArgs.a = <<DOne>>
    /\ fnArgs.samples = <<DNum(3, 2), DNum(-1, 1), DOne>>
    /\ fnOut = <<DNum(3, 2), DNum(-1, 1), DOne>>

\* sum of coef[k] * sig[n - k] over lo <= k <= hi with n - k >= 0
RECURSIVE RefConv(_, _, _, _, _)
RefConv(coef, sig, n, lo, hi) ==
    IF hi < lo THEN DNum(0, 0)
    ELSE LET rest == RefConv(coef, sig, n, lo, hi - 1)
         IN  IF n >= hi THEN DAdd(DMul(coef[hi + 1], sig[n - hi + 1]), rest)
             ELSE rest

\* the recurrence holds at every n of the output, with divisor a0
DirectFormI(a0) ==
    \A n \in 0..(Len(fnOut) - 1) :
        fnOut[n + 1] =
            DDivPow2(DSub(RefConv(fnArgs.b, fnArgs.samples, n, 0,
                                  Len(fnArgs.b) - 1),
                          RefConv(fnArgs.a, fnOut, n, 1, Len(fnArgs.a) - 1)),
                     a0)

IsZero(x) == x.k = "num" /\ x.m = 0

\* C15: y[n] = (sum b[k] x[n-k] - sum_{k>=1} a[k] y[n-k]) / a0 with zero
\* initial state, a0 = a[0] when a[0] is non-zero and 1 when a[0] is zero or
\* absent.
C15_DirectFormI ==
    fnPc = "returned" =>
        DirectFormI(IF Len(fnArgs.a) = 0 \/ IsZero(fnArgs.a[1])
                    THEN DOne ELSE fnArgs.a[1])

\* C15 as the code has it: a0 is 1 also when a[0] is NaN
C15_DirectFormIFalsyA0 ==
    fnPc = "returned" =>
        DirectFormI(IF Len(fnArgs.a) = 0 \/ IsZero(fnArgs.a[1])
                       \/ fnArgs.a[1].k = "nan"
                    THEN DOne ELSE fnArgs.a[1])

C15_Witness ==
    /\ fnPc = "returned"
    /\ fnArgs.samples = <<DOne, DNum(-1, 1), DNum(3, 2)>>
    /\ fnArgs.b = <<DOne, DNum(-1, 1)>>
    /\ fnArgs.a = <<DNum(2, 0), DOne>>
    /\ fnOut = <<DNum(1, 1), DNum(-3, 2), DNum(7, 3)>>

-----------------------------------------------------------------------------
(* createWindow called on its own                                           *)

MaxWin == 7

\* the type argument: the five names and values outside them
WinTypes == KnownWindowTypes \cup {"kaiser", "Hanning", ""}

\* lengths; the cosine windows only where the model's cosine is exact
WinArgs ==
    {w \in [length : (-1)..MaxWin, type : WinTypes] :
        w.type \in {"hanning", "hamming", "blackman"}
            => (w.length - 1) \in {-2, -1, 0, 1, 2, 3, 4, 6}}

\* the window, or the RangeError of new Float32Array(length) for length < 0
WindowCall(length, type) ==
    IF length < 0 THEN [ok |-> FALSE, window |-> <<>>]
    ELSE [ok |-> TRUE, window |-> createWindow(length, type)]

WinInit ==
    /\ fnArgs \in WinArgs
    /\ fnPc = "called"
    /\ fnOut = <<>>
    /\ wavBuf = <<>>
    /\ wavPc = "idle"
    /\ wavOut = [ok |-> FALSE, error |-> ""]
    /\ gsInput = [kind |-> "missing", data |-> <<>>]
    /\ gsOptions = [samplingRate |-> 0, fftSize |-> 0, overlap |-> QInt(0),
                    windowType |-> "rectangular"]
    /\ gsPc = "idle"
    /\ gsSamples = <<>>
    /\ gsHop = QInt(0)
    /\ gsTotal = QInt(0)
    /\ gsI = 0
    /\ gsRows = <<>>
    /\ gsTimes = <<>>
    /\ gsFreqs = <<>>
    /\ gsSkipped = 0
    /\ gsError = ""
    /\ gsReturnedOptions = <<>>
    /\ screen = ScrUnmounted

WinApply ==
    /\ fnPc = "called"
    /\ LET r == WindowCall(fnArgs.length, fnArgs.type)
       IN  /\ fnOut' = r.window
           /\ fnPc' = IF r.ok THEN "returned" ELSE "threw"
    /\ UNCHANGED <<fnArgs, wavVars, gsVars, scrVars>>

WinNext == WinApply

SpecWindow == WinInit /\ [][WinNext]_vars

\* C16: createWindow returns exactly `length` weights, and for 'rectangular'
\* or a type outside the five known names every weight is 1.
C16_WindowLengthAndFallback ==
    fnPc = "returned" =>
        /\ Len(fnOut) = fnArgs.length
        /\ fnArgs.type \notin {"hanning", "hamming", "blackman", "bartlett"}
              => \A i \in 1..Len(fnOut) : fnOut[i] = QInt(1)

C16_Witness ==
    /\ fnPc = "returned"
    /\ fnArgs.type = "kaiser" /\ fnArgs.length = 4
    /\ fnOut = <<QInt(1), QInt(1), QInt(1), QInt(1)>>

-----------------------------------------------------------------------------
(* Several invocations of generateSpectrogram, one after the other.  The    *)
(* function is declared async but awaits nothing, so an invocation runs to  *)
(* its end before the next one starts: invocations interleave as whole      *)
(* calls.  Nothing is reset between the calls: the variables of an          *)
(* invocation keep what the last one left in them until the code assigns    *)
(* them, and the caller's buffers are objects that every invocation is      *)
(* handed by reference.                                                     *)

MaxCalls == 3      \* most invocations in a row

\* the caller's buffers: raw samples longer than the FFT sizes, raw samples
\* that need padding, metering data
CallerBuffers ==
    <<[kind |-> "f32", data |-> F32Data("ramp", 5)],
      [kind |-> "f32", data |-> F32Data("alt", 2)],
      [kind |-> "array", data |-> MeterData("db0", 3)]>>

\* options with the fields that generateSpectrogram does not destructure
CallOptions ==
    {[samplingRate |-> 4, fftSize |-> f, overlap |-> o, windowType |-> "rectangular",
      minFreq |-> x[1], maxFreq |-> x[2], dynamicRange |-> x[3], duration |-> x[4]] :
        f \in {2, 4}, o \in {Q(0, 1), Q(1, 2), Q(1, 1)},
        x \in {<<0, 2, 50, 0>>, <<1, 1, 115, 3>>}}

Calls == [buffer : 1..Len(CallerBuffers), options : CallOptions]

\* invocations that run between two others: many frames of raw samples,
\* metering data, an FFT size the FFT constructor refuses (the invocation
\* throws after its set-up)
InterveningCalls ==
    {[buffer |-> 1,
      options |-> [samplingRate |-> 8, fftSize |-> 2, overlap |-> Q(0, 1),
                   windowType |-> "hanning", minFreq |-> 0, maxFreq |-> 4,
                   dynamicRange |-> 50, duration |-> 0]],
     [buffer |-> 3,
      options |-> [samplingRate |-> 4, fftSize |-> 4, overlap |-> Q(1, 2),
                   windowType |-> "rectangular", minFreq |-> 0,
                   maxFreq |-> 2, dynamicRange |-> 50, duration |-> 0]],
     [buffer |-> 2,
      options |-> [samplingRate |-> 4, fftSize |-> 3, overlap |-> Q(0, 1),
                   windowType |-> "rectangular", minFreq |-> 0,
                   maxFreq |-> 2, dynamicRange |-> 50, duration |-> 0]]}

\* one invocation, or two with up to MaxCalls - 2 others between them
CallSequences ==
    {<<a>> : a \in Calls}
    \cup {<<a>> \o between \o <<b>> :
             a \in Calls, b \in Calls,
             between \in UNION {[1..n -> InterveningCalls] :
                                   n \in 0..(MaxCalls - 2)}}

GsTwiceInit ==
    /\ fnArgs \in [buffers : {CallerBuffers}, calls : CallSequences]
    /\ fnPc = "calling"
    /\ fnOut = <<>>
    /\ gsInput = fnArgs.buffers[fnArgs.calls[1].buffer]
    /\ gsOptions = fnArgs.calls[1].options
    /\ gsPc = "called"
    /\ gsSamples = <<>>
    /\ gsHop = QInt(0)
    /\ gsTotal = QInt(0)
    /\ gsI = 0
    /\ gsRows = <<>>
    /\ gsTimes = <<>>
    /\ gsFreqs = <<>>
    /\ gsSkipped = 0
    /\ gsError = ""
    /\ gsReturnedOptions = <<>>
    /\ screen = ScrUnmounted
    /\ wavBuf = <<>>
    /\ wavPc = "idle"
    /\ wavOut = [ok |-> FALSE, error |-> ""]

\* audioSamples = audioInput: raw samples that need no padding are not
\* copied, audioSamples is the caller's buffer itself
AudioSamplesIsInput ==
    /\ gsInput.kind = "f32"
    /\ ~IsEmptyInput(gsInput)
    /\ Len(gsInput.data) >= gsOptions.fftSize

\* the caller's buffer when the invocation has ended
BufferAfterCall ==
    IF AudioSamplesIsInput THEN [kind |-> "f32", data |-> gsSamples]
    ELSE gsInput

\* the outcome of the invocation that has just ended: the returned object,
\* or nothing but the error when it has thrown
CallOutcome ==
    [buffer |-> fnArgs.calls[Len(fnOut) + 1].buffer,
     input |-> gsInput, options |-> gsOptions, pc |-> gsPc, error |-> gsError,
     returnedOptions |-> IF gsPc = "returned" THEN gsReturnedOptions ELSE <<>>,
     spectrogram |-> IF gsPc = "returned" THEN gsRows ELSE <<>>,
     times |-> IF gsPc = "returned" THEN gsTimes ELSE <<>>,
     frequencies |-> IF gsPc = "returned" THEN gsFreqs ELSE <<>>]

\* an invocation has ended (returned or thrown): its outcome goes to the
\* caller, who makes the next call with a buffer as the calls before have
\* left it
GsCallNext ==
    /\ fnPc = "calling"
    /\ gsPc \in {"returned", "failed"}
    /\ fnOut' = Append(fnOut, CallOutcome)
    /\ LET k == Len(fnOut) + 1
           buffers == [fnArgs.buffers EXCEPT
                          ![fnArgs.calls[k].buffer] = BufferAfterCall]
       IN  /\ fnArgs' = [fnArgs EXCEPT !.buffers = buffers]
           /\ IF k < Len(fnArgs.calls)
              THEN /\ gsInput' = buffers[fnArgs.calls[k + 1].buffer]
                   /\ gsOptions' = fnArgs.calls[k + 1].options
                   /\ gsPc' = "called"
                   /\ fnPc' = "calling"
              ELSE /\ UNCHANGED <<gsInput, gsOptions>>
                   /\ gsPc' = "idle"
                   /\ fnPc' = "returned"
    /\ UNCHANGED <<gsSamples, gsHop, gsTotal, gsI, gsRows, gsTimes, gsFreqs,
                   gsSkipped, gsError, gsReturnedOptions>>
    /\ UNCHANGED <<wavVars, scrVars>>

GsTwiceNext == GsSetup \/ GsFrame \/ GsFrameUnbounded \/ GsReturn \/ GsCallNext

SpecGsTwice == GsTwiceInit /\ [][GsTwiceNext]_vars

-----------------------------------------------------------------------------
(* Further properties of generateSpectrogram                                *)

\* a dB value that is a finite number >= -200
FiniteDb(v) == v.k = "floor" \/ (v.k = "log" /\ IsFinite(v.sq))

\* C20: every entry of the returned spectrogram matrix is a finite number
\* >= -200 dB; zero, NaN and infinite magnitudes never appear as NaN or
\* +/-Infinity, whatever the input buffer holds.
C20_DbFiniteFloored ==
    gsPc = "returned" =>
        \A r \in 1..Len(gsRows) : \A k \in 1..Len(gsRows[r]) :
            FiniteDb(gsRows[r][k])

\* the same for inputs without NaN
C20_DbFiniteFlooredFiniteInput ==
    (gsPc = "returned" /\ \A j \in 1..Len(gsSamples) : IsFinite(gsSamples[j])) =>
        \A r \in 1..Len(gsRows) : \A k \in 1..Len(gsRows[r]) :
            FiniteDb(gsRows[r][k])

\* the options that generateSpectrogram reads
GenerationOptions(o) ==
    <<o.samplingRate, o.fftSize, o.overlap, o.windowType>>

SameResult(r, s) ==
    /\ r.pc = s.pc
    /\ r.spectrogram = s.spectrogram
    /\ r.times = s.times
    /\ r.frequencies = s.frequencies

\* C17: two invocations with identical input (the same buffer of the caller,
\* or buffers holding the same samples) and identical options, whatever ran
\* before or between them, return equal spectrogram, times and frequencies.
C17_Deterministic ==
    \A i \in 1..Len(fnOut) : \A j \in 1..Len(fnOut) :
        ( /\ fnOut[i].buffer = fnOut[j].buffer \/ fnOut[i].input = fnOut[j].input
          /\ fnOut[i].options = fnOut[j].options )
            => SameResult(fnOut[i], fnOut[j])

\* an invocation on the same buffer with other options ran between the two
C17_Witness ==
    /\ Len(fnOut) = 3
    /\ fnOut[1].buffer = fnOut[3].buffer /\ fnOut[1].options = fnOut[3].options
    /\ fnOut[2].buffer = fnOut[1].buffer
    /\ GenerationOptions(fnOut[2].options) # GenerationOptions(fnOut[1].options)
    /\ fnOut[1].pc = "returned" /\ fnOut[2].pc = "returned"
    /\ fnOut[3].pc = "returned"
    /\ Len(fnOut[3].spectrogram) = 4 /\ Len(fnOut[2].spectrogram) = 2

\* C18: two invocations whose options differ only in minFreq, maxFreq,
\* dynamicRange or duration return identical spectrogram, times and
\* frequencies.
C18_IgnoredOptions ==
    \A i \in 1..Len(fnOut) : \A j \in 1..Len(fnOut) :
        ( /\ fnOut[i].input = fnOut[j].input
          /\ GenerationOptions(fnOut[i].options) = GenerationOptions(fnOut[j].options) )
            => SameResult(fnOut[i], fnOut[j])

C18_Witness ==
    /\ Len(fnOut) = 2
    /\ fnOut[1].input = fnOut[2].input
    /\ GenerationOptions(fnOut[1].options) = GenerationOptions(fnOut[2].options)
    /\ fnOut[1].options.duration # fnOut[2].options.duration
    /\ fnOut[1].options.minFreq # fnOut[2].options.minFreq
    /\ fnOut[1].pc = "returned" /\ fnOut[2].pc = "returned"
    /\ Len(fnOut[2].times) = 2

-----------------------------------------------------------------------------
(* Termination, frame contents and time axis of generateSpectrogram         *)

\* C22: for every non-empty input and every fftSize and overlap, hopSize 0
\* or negative included, the invocation ends with a result or an error after
\* finitely many frames.
C22_Terminates ==
    (gsInput.kind # "missing" /\ Len(gsInput.data) > 0)
        => <>(gsPc \in {"returned", "failed"})

\* the row and the time the loop body computes for frame i (from 0)
FrameRow(i) ==
    LET frame == Slice(gsSamples, i * gsHop.n, i * gsHop.n + gsOptions.fftSize)
        res == calculateSpectrum(frame, gsOptions.samplingRate,
                                 gsOptions.fftSize, gsOptions.windowType)
    IN  [k \in 1..Len(res.spectrum) |-> linearToDb(res.spectrum[k])]

Duration == ActualDuration(Len(gsSamples), gsOptions.samplingRate)

\* C23: whenever hopSize >= 1 no frame is skipped: every frame index i below
\* totalFrames has i*hopSize + fftSize <= N, the result has exactly
\* totalFrames rows, row i is computed from samples
\* [i*hopSize, i*hopSize + fftSize) and times[i] is the time of frame i.
C23_NoFrameSkipped ==
    (gsHop.n >= 1 /\ gsPc \in {"loop", "returned"}) =>
        /\ gsSkipped = 0
        /\ Len(gsRows) = gsI /\ Len(gsTimes) = gsI
        /\ \A i \in 0..(gsI - 1) :
              /\ i * gsHop.n + gsOptions.fftSize <= Len(gsSamples)
              /\ gsRows[i + 1] = FrameRow(i)
              /\ gsTimes[i + 1] = FrameTime(i, gsTotal, Duration)
        /\ gsPc = "returned" => QInt(Len(gsRows)) = gsTotal

C23_Witness ==
    /\ gsPc = "returned"
    /\ gsHop.n >= 1
    /\ Len(gsRows) >= 2
    /\ (Len(gsRows) - 1) * gsHop.n + gsOptions.fftSize < Len(gsSamples)

TimesAndDuration ==
    /\ QLt(QInt(1), gsTotal) =>
          /\ QInt(Len(gsTimes)) = gsTotal
          /\ \A i \in 0..(Len(gsTimes) - 1) :
                gsTimes[i + 1] =
                    QMul(QDiv(QInt(i), QAdd(gsTotal, QInt(-1))), Duration)
          /\ gsTimes[1] = QInt(0)
          /\ gsTimes[Len(gsTimes)] = Duration
    /\ gsTotal = QInt(1) =>
          /\ Len(gsTimes) = 1
          /\ gsTimes[1] = QDiv(Duration, QInt(2))
    /\ DOMAIN gsReturnedOptions = DOMAIN gsOptions \cup {"duration"}
    /\ gsReturnedOptions.duration = Duration
    /\ \A f \in DOMAIN gsOptions \ {"duration"} :
          gsReturnedOptions[f] = gsOptions[f]

\* C24 as stated: with D = N / samplingRate, a result of more than one frame
\* has times[i] = (i/(totalFrames-1)) * D, so times[0] = 0 and the last time
\* is D; a single frame has time D/2; the returned options.duration is D
\* whatever duration was supplied, and every other option is passed through.
C24_TimesAndDuration == gsPc = "returned" => TimesAndDuration

\* C24 amended: the same, for a samplingRate other than 0.
C24_TimesAndDurationNonZeroRate ==
    (gsPc = "returned" /\ gsOptions.samplingRate # 0) => TimesAndDuration

C24_Witness ==
    /\ gsPc = "returned"
    /\ gsOptions.samplingRate # 0
    /\ Len(gsTimes) >= 3
    /\ "duration" \in DOMAIN gsOptions
    /\ gsOptions.duration # Duration

-----------------------------------------------------------------------------
(* The spectrogram screen: spectrum of one time slice                       *)

MaxTs == 12        \* most samples of a recording shown on the screen

TsFftSizes == {2, 4, 8}

TsOverlaps == {QInt(0), Q(1, 2), Q(3, 4)}

\* Math.ceil(Math.log2(n)) for an integer n >= 1
RECURSIVE CeilLog2(_)
CeilLog2(n) == IF n <= 1 THEN 0 ELSE 1 + CeilLog2((n + 1) \div 2)

\* Math.pow(2, Math.ceil(Math.log2(N)))
NextPow2(n) == Pow2(CeilLog2(n))

\* currentTimes.length: the frames generateSpectrogram returned for the
\* recording (hopSize >= 1)
TsFrameCount(totalSamples, fftSize, overlap) ==
    TotalTimeFrames(IF totalSamples < fftSize THEN fftSize ELSE totalSamples,
                    fftSize, HopSize(fftSize, overlap)).n

\* the segment is cut off at the end of the samples
SegmentEnd(startSampleIndex, segmentLength, totalSamples) ==
    IF startSampleIndex + segmentLength < totalSamples
    THEN startSampleIndex + segmentLength ELSE totalSamples

\* without raw samples the segment is rebuilt from the spectrogram, one value
\* for each frame from startIdx to endIdx around the selected one (every row
\* of a spectrogram of fftSize >= 2 has a lowest bin)
ReconstructedSegment(frameCount, timeIndex) ==
    LET fivePercent == (frameCount * 5) \div 100
        segmentWidth == IF fivePercent > 10 THEN fivePercent ELSE 10
        half == segmentWidth \div 2
        startIdx == IF timeIndex - half > 0 THEN timeIndex - half ELSE 0
        endIdx == IF timeIndex + half < frameCount - 1
                  THEN timeIndex + half ELSE frameCount - 1
    IN  [start |-> startIdx,
         length |-> IF endIdx >= startIdx THEN endIdx - startIdx + 1 ELSE 0]

\* segment extraction, from filteredSamples when there are raw samples and
\* from the spectrogram otherwise, and the size of the FFT made of the
\* segment; fft.js refuses a size below 2
calculateTimeSliceSpectrum(hasSamples, totalSamples, frameCount, fftSize, timeIndex) ==
    LET samplesPerTimeFrame == totalSamples \div frameCount
        startSampleIndex == timeIndex * samplesPerTimeFrame
        segmentLength == IF fftSize = 0 THEN 1024 ELSE fftSize
        endSampleIndex == SegmentEnd(startSampleIndex, segmentLength,
                                     totalSamples)
        rebuilt == ReconstructedSegment(frameCount, timeIndex)
        N == IF ~hasSamples THEN rebuilt.length
             ELSE IF endSampleIndex > startSampleIndex
             THEN endSampleIndex - startSampleIndex ELSE 0
        fftSizeToUse == NextPow2(N)
    IN  IF ~hasSamples /\ timeIndex >= frameCount
        THEN [outcome |-> "no spectrogram data", start |-> 0, length |-> 0,
              fftSizeToUse |-> 0, bins |-> 0]
        ELSE
        [outcome |-> IF N = 0 THEN "no samples"
                     ELSE IF fftSizeToUse < 2 THEN "threw" ELSE "spectrum",
         start |-> IF hasSamples THEN startSampleIndex ELSE rebuilt.start,
         length |-> N,
         fftSizeToUse |-> IF N = 0 THEN 0 ELSE fftSizeToUse,
         bins |-> IF N = 0 \/ fftSizeToUse < 2 THEN 0 ELSE fftSizeToUse \div 2]

\* a recording of raw samples (hasSamples) or of metering values only, the
\* options of its spectrogram and a frame of the result
TsArgs ==
    {a \in [hasSamples : BOOLEAN, totalSamples : 1..MaxTs,
            fftSize : TsFftSizes,
            overlap : TsOverlaps, timeIndex : 0..MaxTs] :
        /\ HopSize(a.fftSize, a.overlap).n >= 1
        /\ a.timeIndex < TsFrameCount(a.totalSamples, a.fftSize, a.overlap)}

TsInit ==
    /\ fnArgs \in TsArgs
    /\ fnPc = "called"
    /\ fnOut = <<>>
    /\ wavBuf = <<>>
    /\ wavPc = "idle"
    /\ wavOut = [ok |-> FALSE, error |-> ""]
    /\ gsInput = [kind |-> "missing", data |-> <<>>]
    /\ gsOptions = [samplingRate |-> 0, fftSize |-> 0, overlap |-> QInt(0),
                    windowType |-> "rectangular"]
    /\ gsPc = "idle"
    /\ gsSamples = <<>>
    /\ gsHop = QInt(0)
    /\ gsTotal = QInt(0)
    /\ gsI = 0
    /\ gsRows = <<>>
    /\ gsTimes = <<>>
    /\ gsFreqs = <<>>
    /\ gsSkipped = 0
    /\ gsError = ""
    /\ gsReturnedOptions = <<>>
    /\ screen = ScrUnmounted

\* the user selects a frame of the spectrogram
TsSelect ==
    /\ fnPc = "called"
    /\ fnOut' = calculateTimeSliceSpectrum(
                    fnArgs.hasSamples, fnArgs.totalSamples,
                    TsFrameCount(fnArgs.totalSamples, fnArgs.fftSize,
                                 fnArgs.overlap),
                    fnArgs.fftSize, fnArgs.timeIndex)
    /\ fnPc' = "returned"
    /\ UNCHANGED fnArgs
    /\ UNCHANGED <<gsVars, wavVars, scrVars>>

TsNext == TsSelect

SpecTimeSlice == TsInit /\ [][TsNext]_vars

SliceOfFftSize ==
    /\ fnOut.outcome = "spectrum"
    /\ fnOut.start = fnArgs.timeIndex
                        * (fnArgs.totalSamples
                             \div TsFrameCount(fnArgs.totalSamples,
                                               fnArgs.fftSize, fnArgs.overlap))
    /\ fnOut.length = fnArgs.fftSize
    /\ 2 * fnOut.bins = fnArgs.fftSize

\* C25: for every frame index of the result the time-slice analyzer takes
\* exactly fftSize samples starting at index * floor(totalSamples/frameCount)
\* and its spectrum has fftSize/2 bins.
C25_TimeSliceOfFftSize == fnPc = "returned" => SliceOfFftSize

\* the same for raw samples and the frames whose segment ends inside the
\* recording
C25_TimeSliceOfFftSizeInside ==
    ( /\ fnPc = "returned"
      /\ fnArgs.hasSamples
      /\ fnOut.start + fnArgs.fftSize <= fnArgs.totalSamples )
    => SliceOfFftSize

-----------------------------------------------------------------------------
(* The spectrogram screen: input of the full-recording spectrum             *)

MaxFullSpectrumSamples == 4   \* MAX_FULL_SPECTRUM_SAMPLES, 2^20 in the code

MaxDs == 9         \* most samples of a recording

DsValues == {QInt(-1), QInt(0), Q(1, 2)}

RECURSIVE DsInputs(_)
DsInputs(len) ==
    IF len = 0 THEN {<<>>}
    ELSE {Append(s, v) : s \in DsInputs(len - 1), v \in DsValues}

\* Math.abs
QAbs(x) == Q(Abs(x.n), x.d)

\* Math.sign(samplesForFFTInput[idx]); the element past the end is undefined
\* and its sign NaN
SignAt(samples, idx) ==
    IF idx >= Len(samples) \/ IsNaN(samples[idx + 1]) THEN QNaN
    ELSE QInt(Sgn(samples[idx + 1].n))

\* the inner loop: maxAbs = Math.max(maxAbs, Math.abs(samplesForFFTInput[j]))
RECURSIVE MaxAbsLoop(_, _, _, _)
MaxAbsLoop(samples, j, endIdx, maxAbs) ==
    IF j >= endIdx THEN maxAbs
    ELSE MaxAbsLoop(samples, j + 1, endIdx,
                    QMax(maxAbs, QAbs(samples[j + 1])))

\* downsampleFactor = Math.ceil(N_original / MAX_FULL_SPECTRUM_SAMPLES)
DownsampleFactor(N, maxSamples) == (N + maxSamples - 1) \div maxSamples

\* bounds of block i (from 0)
BlockStart(i, factor) == i * factor

BlockEnd(i, factor, N) == IF N < (i + 1) * factor THEN N ELSE (i + 1) * factor

\* samplesForFFT: the input as it is, or one value per block when it is
\* longer than the cap
SamplesForFFT(samples, maxSamples) ==
    LET N == Len(samples)
        factor == DownsampleFactor(N, maxSamples)
    IN  IF N > maxSamples
        THEN [k \in 1..maxSamples |->
                QMul(MaxAbsLoop(samples, BlockStart(k - 1, factor),
                                BlockEnd(k - 1, factor, N), QInt(0)),
                     SignAt(samples, BlockStart(k - 1, factor)))]
        ELSE samples

DsInit ==
    /\ fnArgs \in UNION {DsInputs(len) : len \in 0..MaxDs}
    /\ fnPc = "called"
    /\ fnOut = <<>>
    /\ wavBuf = <<>>
    /\ wavPc = "idle"
    /\ wavOut = [ok |-> FALSE, error |-> ""]
    /\ gsInput = [kind |-> "missing", data |-> <<>>]
    /\ gsOptions = [samplingRate |-> 0, fftSize |-> 0, overlap |-> QInt(0),
                    windowType |-> "rectangular"]
    /\ gsPc = "idle"
    /\ gsSamples = <<>>
    /\ gsHop = QInt(0)
    /\ gsTotal = QInt(0)
    /\ gsI = 0
    /\ gsRows = <<>>
    /\ gsTimes = <<>>
    /\ gsFreqs = <<>>
    /\ gsSkipped = 0
    /\ gsError = ""
    /\ gsReturnedOptions = <<>>
    /\ screen = ScrUnmounted

\* the memo up to the FFT: null for an empty input
DsPrepare ==
    /\ fnPc = "called"
    /\ IF Len(fnArgs) = 0
       THEN fnPc' = "null" /\ fnOut' = <<>>
       ELSE /\ fnPc' = "prepared"
            /\ fnOut' = SamplesForFFT(fnArgs, MaxFullSpectrumSamples)
    /\ UNCHANGED fnArgs
    /\ UNCHANGED <<gsVars, wavVars, scrVars>>

DsNext == DsPrepare

SpecDownsample == DsInit /\ [][DsNext]_vars

\* the largest absolute value among samples [lo, hi)
PeakOf(samples, lo, hi) ==
    LET abs == {QAbs(samples[j + 1]) : j \in lo..(hi - 1)}
    IN  CHOOSE m \in abs : \A a \in abs : QLe(a, m)

\* output k (from 0) stands for a non-empty block inside the input, is
\* finite, has the peak of the block as magnitude and the sign of its first
\* sample
BlockPreserved(k) ==
    LET factor == DownsampleFactor(Len(fnArgs), MaxFullSpectrumSamples)
        lo == k * factor
        hi == IF Len(fnArgs) < (k + 1) * factor
              THEN Len(fnArgs) ELSE (k + 1) * factor
    IN  /\ lo < hi /\ hi <= Len(fnArgs)
        /\ IsFinite(fnOut[k + 1])
        /\ QAbs(fnOut[k + 1]) = PeakOf(fnArgs, lo, hi)
        /\ Sgn(fnOut[k + 1].n) = Sgn(fnArgs[lo + 1].n)

\* C26: for every input longer than the cap each of the cap-many output
\* samples comes from a non-empty block inside the input, is finite, has the
\* block's largest absolute value as magnitude and the sign of the block's
\* first sample.
C26_DownsamplePreservesPeaks ==
    (fnPc = "prepared" /\ Len(fnArgs) > MaxFullSpectrumSamples) =>
        /\ Len(fnOut) = MaxFullSpectrumSamples
        /\ \A k \in 0..(MaxFullSpectrumSamples - 1) : BlockPreserved(k)

\* the same for an input whose length is a multiple of the cap and whose
\* blocks do not begin with a zero sample
C26_DownsampleFullBlocks ==
    ( /\ fnPc = "prepared" /\ Len(fnArgs) > MaxFullSpectrumSamples
      /\ Len(fnArgs) % MaxFullSpectrumSamples = 0
      /\ \A k \in 0..(MaxFullSpectrumSamples - 1) :
            fnArgs[k * (Len(fnArgs) \div MaxFullSpectrumSamples) + 1]
                # QInt(0) ) =>
        /\ Len(fnOut) = MaxFullSpectrumSamples
        /\ \A k \in 0..(MaxFullSpectrumSamples - 1) : BlockPreserved(k)

-----------------------------------------------------------------------------
(* The spectrogram screen: points of the full-recording spectrum plot       *)

MaxRenderPoints == 3   \* MAX_RENDER_POINTS, 200 in the code

MaxBins == 7       \* most bins of the full spectrum

\* finalSpectrum holds finite magnitudes (isFinite(mag) ? ... : 0)
PlotMagnitudes == {QInt(0), QInt(1), QInt(2)}

RECURSIVE PlotSpectra(_)
PlotSpectra(len) ==
    IF len = 0 THEN {<<>>}
    ELSE {Append(s, v) : s \in PlotSpectra(len - 1), v \in PlotMagnitudes}

\* frequencies[k] = k * delta_f, with delta_f = 1
PlotFrequency(k) == QInt(k)

\* indices of the bins with minFreqToPlot <= f <= maxFreqToPlot, in order
RECURSIVE ValidFreqIndices(_, _, _, _)
ValidFreqIndices(Np2, minFreqToPlot, maxFreqToPlot, k) ==
    IF k >= Np2 THEN <<>>
    ELSE LET rest == ValidFreqIndices(Np2, minFreqToPlot, maxFreqToPlot, k + 1)
         IN  IF QLe(minFreqToPlot, PlotFrequency(k))
                /\ QLe(PlotFrequency(k), maxFreqToPlot)
             THEN <<k>> \o rest ELSE rest

\* a plausible slip: plain decimation, the first bin of the block is taken
RECURSIVE BlockFirst(_, _, _, _, _, _)
BlockFirst(finalSpectrum, valid, j, segmentEnd, maxMag, indexAtMax) ==
    IF j >= segmentEnd THEN [magnitude |-> maxMag, index |-> indexAtMax]
    ELSE BlockFirst(finalSpectrum, valid, segmentEnd, segmentEnd,
                    finalSpectrum[valid[j + 1] + 1], valid[j + 1])

\* the inner loop: the first bin of the block with the largest magnitude
RECURSIVE BlockMax(_, _, _, _, _, _)
BlockMax(finalSpectrum, valid, j, segmentEnd, maxMag, indexAtMax) ==
    IF j >= segmentEnd THEN [magnitude |-> maxMag, index |-> indexAtMax]
    ELSE IF QLt(maxMag, finalSpectrum[valid[j + 1] + 1])
    THEN BlockMax(finalSpectrum, valid, j + 1, segmentEnd,
                  finalSpectrum[valid[j + 1] + 1], valid[j + 1])
    ELSE BlockMax(finalSpectrum, valid, j + 1, segmentEnd, maxMag, indexAtMax)

\* the outer loop: one point per block of factor valid bins
RECURSIVE PlotBlocks(_, _, _, _)
PlotBlocks(finalSpectrum, valid, i, factor) ==
    IF i >= Len(valid) THEN <<>>
    ELSE LET segmentEnd == IF i + factor < Len(valid)
                           THEN i + factor ELSE Len(valid)
             m == BlockMax(finalSpectrum, valid, i, segmentEnd, QNegInf, -1)
             rest == PlotBlocks(finalSpectrum, valid, i + factor, factor)
         IN  IF m.index # -1
             THEN <<[freq |-> PlotFrequency(m.index),
                     magnitude |-> m.magnitude]>> \o rest
             ELSE rest

\* pointsToPlot
PointsToPlot(finalSpectrum, valid, maxPoints) ==
    IF Len(valid) > maxPoints
    THEN PlotBlocks(finalSpectrum, valid, 0,
                    (Len(valid) + maxPoints - 1) \div maxPoints)
    ELSE [k \in 1..Len(valid) |->
             [freq |-> PlotFrequency(valid[k]),
              magnitude |-> finalSpectrum[valid[k] + 1]]]

PlotInit ==
    /\ fnArgs \in [spectrum : UNION {PlotSpectra(len) : len \in 0..MaxBins},
                    minFreq : {QInt(0), QInt(2)},
                    maxFreq : {QInt(3), QInt(100)}]
    /\ fnPc = "called"
    /\ fnOut = <<>>
    /\ wavBuf = <<>>
    /\ wavPc = "idle"
    /\ wavOut = [ok |-> FALSE, error |-> ""]
    /\ gsInput = [kind |-> "missing", data |-> <<>>]
    /\ gsOptions = [samplingRate |-> 0, fftSize |-> 0, overlap |-> QInt(0),
                    windowType |-> "rectangular"]
    /\ gsPc = "idle"
    /\ gsSamples = <<>>
    /\ gsHop = QInt(0)
    /\ gsTotal = QInt(0)
    /\ gsI = 0
    /\ gsRows = <<>>
    /\ gsTimes = <<>>
    /\ gsFreqs = <<>>
    /\ gsSkipped = 0
    /\ gsError = ""
    /\ gsReturnedOptions = <<>>
    /\ screen = ScrUnmounted

\* the memo from the filtering of the bins on
PlotSelect ==
    /\ fnPc = "called"
    /\ fnOut' = PointsToPlot(fnArgs.spectrum,
                             ValidFreqIndices(Len(fnArgs.spectrum),
                                              fnArgs.minFreq, fnArgs.maxFreq, 0),
                             MaxRenderPoints)
    /\ fnPc' = "returned"
    /\ UNCHANGED fnArgs
    /\ UNCHANGED <<gsVars, wavVars, scrVars>>

PlotNext == PlotSelect

SpecPlot == PlotInit /\ [][PlotNext]_vars

\* the in-range bins
InRange ==
    {k \in 0..(Len(fnArgs.spectrum) - 1) :
        QLe(fnArgs.minFreq, QInt(k)) /\ QLe(QInt(k), fnArgs.maxFreq)}

\* the bin a plotted point stands for
BinOf(p) == CHOOSE k \in 0..MaxBins : QInt(k) = fnOut[p].freq

\* the points are the peaks of a partition of the in-range bins into blocks
\* of consecutive bins, in order
PeaksOfBlocks ==
    \E width \in 1..(MaxBins + 1) :
        LET lo == CHOOSE k \in InRange : \A l \in InRange : k <= l
            block(p) == {k \in InRange : (k - lo) \div width = p - 1}
        IN  /\ \A k \in InRange : (k - lo) \div width < Len(fnOut)
            /\ \A p \in 1..Len(fnOut) :
                  /\ BinOf(p) \in block(p)
                  /\ fnOut[p].magnitude = fnArgs.spectrum[BinOf(p) + 1]
                  /\ \A k \in block(p) :
                        QLe(fnArgs.spectrum[k + 1], fnOut[p].magnitude)

\* C27: pointsToPlot has at most 200 points, exactly L when L <= 200, in
\* increasing frequency order; each point is the largest-magnitude bin of a
\* distinct block of consecutive in-range bins, so the largest in-range
\* magnitude is among the points.
C27_PlotBoundedPeaks ==
    fnPc = "returned" =>
        LET L == Cardinality(InRange)
        IN  /\ Len(fnOut) <= MaxRenderPoints
            /\ L <= MaxRenderPoints => Len(fnOut) = L
            /\ \A p \in 1..(Len(fnOut) - 1) :
                  QLt(fnOut[p].freq, fnOut[p + 1].freq)
            /\ L = 0 => Len(fnOut) = 0
            /\ L > 0 =>
                  /\ PeaksOfBlocks
                  /\ \E p \in 1..Len(fnOut) : \A k \in InRange :
                        QLe(fnArgs.spectrum[k + 1], fnOut[p].magnitude)

C27_Witness ==
    /\ fnPc = "returned"
    /\ fnArgs.spectrum = <<QInt(2), QInt(0), QInt(1), QInt(0), QInt(2),
                           QInt(1), QInt(1)>>
    /\ fnArgs.minFreq = QInt(0) /\ fnArgs.maxFreq = QInt(100)
    /\ fnOut = <<[freq |-> QInt(0), magnitude |-> QInt(2)],
                 [freq |-> QInt(4), magnitude |-> QInt(2)],
                 [freq |-> QInt(6), magnitude |-> QInt(1)]>>

-----------------------------------------------------------------------------
(* extractRawPCMFromCompressed: conversion to a temporary WAV file          *)

\* what FFmpeg writes for -acodec pcm_s16le -ar 44100 -ac 1, with or without
\* a LIST chunk, and two files that do not parse
CxWavFiles ==
    { LET payload == Payload(16, 1, n, start, 1)
      IN  WavHeader(RIFF, WAVE, 36 + Len(payload))
            \o FmtChunk(1, 1, 44100, 16)
            \o (IF list THEN ListChunk(2) ELSE <<>>)
            \o DataChunk(Len(payload), payload) :
        n \in 0..MaxSamples, start \in 0..6, list \in BOOLEAN }
    \cup {<<>>, WavHeader(RIFF, WAVE, 4)}

\* how the FFmpeg session ends (or FFmpegKit.execute rejects), whether a
\* conversion that did not succeed had already created the output file, and
\* which of session.getReturnCode, readAsStringAsync and
\* session.getLogsAsString reject; deleteAsync with idempotent: true resolves
CxRuns ==
    [conversion : {"success", "cancel", "fail", "throws"},
     created : BOOLEAN, returnCodeThrows : BOOLEAN, readThrows : BOOLEAN,
     logsThrow : BOOLEAN]

CxInit ==
    /\ fnArgs \in CxRuns
    /\ wavBuf \in CxWavFiles
    /\ fnPc = "called"
    /\ fnOut = [file |-> "absent", result |-> "pending"]
    /\ wavPc = "idle"
    /\ wavOut = [ok |-> FALSE, error |-> ""]
    /\ gsInput = [kind |-> "missing", data |-> <<>>]
    /\ gsOptions = [samplingRate |-> 0, fftSize |-> 0, overlap |-> QInt(0),
                    windowType |-> "rectangular"]
    /\ gsPc = "idle"
    /\ gsSamples = <<>>
    /\ gsHop = QInt(0)
    /\ gsTotal = QInt(0)
    /\ gsI = 0
    /\ gsRows = <<>>
    /\ gsTimes = <<>>
    /\ gsFreqs = <<>>
    /\ gsSkipped = 0
    /\ gsError = ""
    /\ gsReturnedOptions = <<>>
    /\ screen = ScrUnmounted

\* await FFmpegKit.execute(command): FFmpeg has written what it writes
CxExecute ==
    /\ fnPc = "called"
    /\ fnPc' = IF fnArgs.conversion = "throws" THEN "catch" ELSE "executed"
    /\ fnOut' = [file |-> IF fnArgs.conversion = "success" \/ fnArgs.created
                          THEN "present" ELSE "absent",
                 result |-> "pending"]
    /\ UNCHANGED <<fnArgs, gsVars, wavVars, scrVars>>

\* await session.getReturnCode() and the branch on the code; the cancel
\* branch returns null at once
CxGetReturnCode ==
    /\ fnPc = "executed"
    /\ IF fnArgs.returnCodeThrows
       THEN fnPc' = "catch" /\ UNCHANGED fnOut
       ELSE CASE fnArgs.conversion = "success" ->
                   fnPc' = "reading" /\ UNCHANGED fnOut
              [] fnArgs.conversion = "cancel" ->
                   fnPc' = "settled"
                   /\ fnOut' = [fnOut EXCEPT !.result = "null"]
              [] OTHER ->
                   fnPc' = "failed" /\ UNCHANGED fnOut
    /\ UNCHANGED <<fnArgs, gsVars, wavVars, scrVars>>

\* await readAsStringAsync, then extractRawPCMFromWAV on what was read
CxReadParse ==
    /\ fnPc = "reading"
    /\ IF fnArgs.readThrows
       THEN fnPc' = "catch" /\ UNCHANGED <<wavPc, wavOut>>
       ELSE LET r == extractRawPCMFromWAV(wavBuf)
            IN  /\ wavOut' = r
                /\ wavPc' = IF r.ok THEN "returned" ELSE "threw"
                /\ fnPc' = IF r.ok THEN "parsed" ELSE "catch"
    /\ UNCHANGED <<fnArgs, fnOut, wavBuf, gsVars, scrVars>>

\* success: await deleteAsync, return pcmData
CxCleanup ==
    /\ fnPc = "parsed"
    /\ fnOut' = [file |-> "absent", result |-> "pcm"]
    /\ fnPc' = "settled"
    /\ UNCHANGED <<fnArgs, gsVars, wavVars, scrVars>>

\* failure code: await session.getLogsAsString()
CxFailLogs ==
    /\ fnPc = "failed"
    /\ fnPc' = IF fnArgs.logsThrow THEN "catch" ELSE "failDeleting"
    /\ UNCHANGED <<fnArgs, fnOut, gsVars, wavVars, scrVars>>

\* failure code: await deleteAsync, return null
CxFailCleanup ==
    /\ fnPc = "failDeleting"
    /\ fnOut' = [file |-> "absent", result |-> "null"]
    /\ fnPc' = "settled"
    /\ UNCHANGED <<fnArgs, gsVars, wavVars, scrVars>>

\* catch: await deleteAsync, return null
CxCatch ==
    /\ fnPc = "catch"
    /\ fnOut' = [file |-> "absent", result |-> "null"]
    /\ fnPc' = "settled"
    /\ UNCHANGED <<fnArgs, gsVars, wavVars, scrVars>>

CxNext ==
    \/ CxExecute \/ CxGetReturnCode \/ CxReadParse \/ CxCleanup
    \/ CxFailLogs \/ CxFailCleanup \/ CxCatch

SpecCompressed == CxInit /\ [][CxNext]_vars

\* C30: on every outcome of the conversion (success, failure code,
\* cancellation, an exception while converting, reading or parsing) the
\* temporary WAV file is gone when the returned promise settles.
C30_TempFileDeleted == fnPc = "settled" => fnOut.file = "absent"

\* the same for every outcome but cancellation
C30_TempFileDeletedUnlessCancelled ==
    (fnPc = "settled" /\ fnArgs.conversion # "cancel")
        => fnOut.file = "absent"

-----------------------------------------------------------------------------
(* The spectrogram screen: option controls and the generation effect        *)

\* values of the FFT size buttons, the overlap slider and the window buttons
ScrOptionsSet ==
    [fftSize : {1024, 2048}, overlap : {Q(1, 2), Q(3, 4)},
     windowType : {"hanning", "rectangular"}]

\* options passed by the navigation parameters; 1000 is an FFT size the FFT
\* constructor refuses
ScrInitialOptions ==
    [fftSize : {1000, 1024}, overlap : {Q(1, 2), Q(3, 4)},
     windowType : {"hanning"}]

\* the audio the navigation parameters carry: neither string, raw samples,
\* metering data only, or strings that yield no samples (an empty array, the
\* old metering format, text that does not parse)
ScrInputs == {"none", "raw", "metering", "unusable"}

\* defaultOptions, the fields the controls change
defaultOptions ==
    [fftSize |-> 1024, overlap |-> Q(3, 4), windowType |-> "hanning"]

\* spectrogramResult = null
NoResult == [present |-> FALSE, options |-> defaultOptions]

\* no generateSpectrogram promise waiting to settle
NoGeneration == [active |-> FALSE, options |-> defaultOptions]

\* what a render hands to the handlers and to the effect it schedules: the
\* state values of that render
Snapshot(s) ==
    [isFocused |-> s.isFocused, isFilterEnabled |-> s.isFilterEnabled,
     options |-> s.options, spectrogramResult |-> s.spectrogramResult,
     isLoading |-> s.isLoading]

\* the screen after its first render: options from the navigation
\* parameters, no result, the effect of the render due; `requested` remembers
\* the option value the user chose last while a result was on display, until
\* a result generated with it is stored or the screen is left
MountedScreen(focused, input, options) ==
    LET state == [isFocused |-> focused, isFilterEnabled |-> FALSE,
                  options |-> options, spectrogramResult |-> NoResult,
                  isLoading |-> FALSE]
    IN  [mounted |-> TRUE, input |-> input, isFocused |-> focused,
         isFilterEnabled |-> FALSE, options |-> options,
         spectrogramResult |-> NoResult, isLoading |-> FALSE,
         rendered |-> state, effectDue |-> TRUE,
         generating |-> NoGeneration, reaction |-> "none",
         requested |-> NoGeneration]

ScrInit ==
    /\ screen \in {MountedScreen(focused, input, options) :
                      focused \in BOOLEAN, input \in ScrInputs,
                      options \in ScrInitialOptions}
    /\ fnArgs = <<>>
    /\ fnPc = "idle"
    /\ fnOut = <<>>
    /\ wavBuf = <<>>
    /\ wavPc = "idle"
    /\ wavOut = [ok |-> FALSE, error |-> ""]
    /\ gsInput = [kind |-> "missing", data |-> <<>>]
    /\ gsOptions = [samplingRate |-> 0, fftSize |-> 0, overlap |-> QInt(0),
                    windowType |-> "rectangular"]
    /\ gsPc = "idle"
    /\ gsSamples = <<>>
    /\ gsHop = QInt(0)
    /\ gsTotal = QInt(0)
    /\ gsI = 0
    /\ gsRows = <<>>
    /\ gsTimes = <<>>
    /\ gsFreqs = <<>>
    /\ gsSkipped = 0
    /\ gsError = ""
    /\ gsReturnedOptions = <<>>

\* React renders again after a state change, once the effect of the render
\* before has run; every value of the snapshot is a dependency of the
\* generation effect, which is therefore due again
ScrRender ==
    /\ screen.mounted
    /\ ~screen.effectDue
    /\ Snapshot(screen) # screen.rendered
    /\ screen' = [screen EXCEPT !.rendered = Snapshot(screen),
                                !.effectDue = TRUE]
    /\ UNCHANGED <<gsVars, wavVars, fnVars>>

\* disabled={isLoading} of the controls as rendered; a press is a task and
\* comes after the promise reactions
ControlsEnabled ==
    /\ ~screen.rendered.isLoading
    /\ ~screen.generating.active

\* setOptions from a control
WithOptions(options) ==
    [screen EXCEPT !.options = options,
                   !.requested =
                       IF screen.spectrogramResult.present
                       THEN [active |-> TRUE, options |-> options]
                       ELSE screen.requested]

\* onPress of an FFT size button: setOptions({ ...options, fftSize: size })
\* with the options of the render
ScrSetFftSize ==
    /\ ControlsEnabled
    /\ \E size \in {1024, 2048} :
          LET options == [screen.rendered.options EXCEPT !.fftSize = size]
          IN  /\ options # screen.options
              /\ screen' = WithOptions(options)
    /\ UNCHANGED <<gsVars, wavVars, fnVars>>

\* onValueChange of the overlap slider: setOptions(prev => ({ ...prev,
\* overlap: value }))
ScrSetOverlap ==
    /\ ControlsEnabled
    /\ \E value \in {Q(1, 2), Q(3, 4)} :
          /\ value # screen.options.overlap
          /\ screen' = WithOptions([screen.options EXCEPT !.overlap = value])
    /\ UNCHANGED <<gsVars, wavVars, fnVars>>

\* onPress of a window type button: setOptions({ ...options, windowType:
\* type }) with the options of the render
ScrSetWindowType ==
    /\ ControlsEnabled
    /\ \E type \in {"hanning", "rectangular"} :
          LET options == [screen.rendered.options EXCEPT !.windowType = type]
          IN  /\ options # screen.options
              /\ screen' = WithOptions(options)
    /\ UNCHANGED <<gsVars, wavVars, fnVars>>

\* onPress of the filter button: the filter is switched, from its value in
\* the render, and the result cleared
ScrToggleFilter ==
    /\ ControlsEnabled
    /\ screen' = [screen EXCEPT
                     !.isFilterEnabled = ~screen.rendered.isFilterEnabled,
                     !.spectrogramResult = NoResult]
    /\ UNCHANGED <<gsVars, wavVars, fnVars>>

\* the generation effect skips, on the values of its render: not focused, or
\* no input, or a result exists, or loading
EffectSkips ==
    \/ ~screen.rendered.isFocused
    \/ screen.input = "none"
    \/ screen.rendered.spectrogramResult.present
    \/ screen.rendered.isLoading

\* the generation effect of the last render.
\* It returns early (clearing a result when the input is gone), or resets the
\* controls to the defaults and then either finds no samples to pass on or
\* sets isLoading and calls generateSpectrogram with the options of its
\* render
ScrEffect ==
    /\ screen.mounted
    /\ screen.effectDue
    /\ IF EffectSkips
       THEN IF /\ screen.rendered.isFocused
               /\ screen.input = "none"
               /\ screen.rendered.spectrogramResult.present
            THEN screen' = [screen EXCEPT !.spectrogramResult = NoResult,
                                          !.effectDue = FALSE]
            ELSE screen' = [screen EXCEPT !.effectDue = FALSE]
       ELSE IF screen.input = "unusable"
       THEN screen' = [screen EXCEPT
                          !.options = defaultOptions,
                          !.isLoading = FALSE,
                          !.effectDue = FALSE]
       ELSE screen' = [screen EXCEPT
                          !.options = defaultOptions,
                          !.isLoading = TRUE,
                          !.effectDue = FALSE,
                          !.generating =
                              [active |-> TRUE,
                               options |-> screen.rendered.options],
                          !.reaction = "then"]
    /\ UNCHANGED <<gsVars, wavVars, fnVars>>

\* generateSpectrogram rejects when the FFT constructor refuses fftSize (the
\* input of the effect is never empty)
GenerationFails(options) == options.fftSize <= 1 \/ ~IsPow2(options.fftSize)

\* then or catch of the generateSpectrogram promise: the result, with the
\* options it was generated with, is stored, or cleared after an error;
\* isLoading is still set
ScrGenerationSettled ==
    /\ screen.generating.active
    /\ screen.reaction = "then"
    /\ IF GenerationFails(screen.generating.options)
       THEN screen' = [screen EXCEPT
                          !.spectrogramResult = NoResult,
                          !.reaction = "finally"]
       ELSE screen' = [screen EXCEPT
                     !.spectrogramResult =
                         [present |-> TRUE,
                          options |-> screen.generating.options],
                     !.reaction = "finally",
                     !.requested =
                         IF screen.requested.options = screen.generating.options
                         THEN NoGeneration ELSE screen.requested]
    /\ UNCHANGED <<gsVars, wavVars, fnVars>>

\* finally of the promise, two microtask turns later: isLoading is reset
ScrGenerationFinally ==
    /\ screen.generating.active
    /\ screen.reaction = "finally"
    /\ screen' = [screen EXCEPT
                     !.isLoading = FALSE,
                     !.generating = NoGeneration,
                     !.reaction = "none"]
    /\ UNCHANGED <<gsVars, wavVars, fnVars>>

\* the screen loses focus: the cleanup of the focus effect clears the result
ScrBlur ==
    /\ screen.isFocused
    /\ ~screen.generating.active
    /\ screen' = [screen EXCEPT
                     !.isFocused = FALSE,
                     !.isLoading = FALSE,
                     !.spectrogramResult = NoResult,
                     !.requested = NoGeneration]
    /\ UNCHANGED <<gsVars, wavVars, fnVars>>

\* the screen gains focus
ScrFocus ==
    /\ screen.mounted
    /\ ~screen.isFocused
    /\ ~screen.generating.active
    /\ screen' = [screen EXCEPT !.isFocused = TRUE]
    /\ UNCHANGED <<gsVars, wavVars, fnVars>>

ScrNext ==
    \/ ScrSetFftSize \/ ScrSetOverlap \/ ScrSetWindowType \/ ScrToggleFilter
    \/ ScrRender \/ ScrEffect \/ ScrGenerationSettled \/ ScrGenerationFinally
    \/ ScrBlur \/ ScrFocus

\* React renders after a state change and runs a due effect, and a settled
\* promise runs its reactions; what the user does is up to the user
SpecScreen ==
    ScrInit /\ [][ScrNext]_vars
        /\ WF_vars(ScrRender) /\ WF_vars(ScrEffect)
        /\ WF_vars(ScrGenerationSettled) /\ WF_vars(ScrGenerationFinally)

\* C29: on the focused screen with a result on display and no generation
\* running, after the user changes FFT size, overlap or window type,
\* generateSpectrogram is eventually invoked with the new value and the
\* displayed result comes to reflect it (unless the user changes the options
\* again or leaves the screen first).
C29_OptionChangeRegenerates ==
    \A o \in ScrOptionsSet :
        ( /\ screen.isFocused /\ ~screen.isLoading
          /\ screen.spectrogramResult.present
          /\ screen.requested = [active |-> TRUE, options |-> o]
          /\ screen.spectrogramResult.options # o )
        ~> ( \/ ( /\ screen.spectrogramResult.present
                  /\ screen.spectrogramResult.options = o )
             \/ screen.requested # [active |-> TRUE, options |-> o] )

=============================================================================
